---- MODULE Spec2Model ----
(***************************************************************************)
(* Verification model of the portfolio statistics script (src/script.js,   *)
(* and the earlier revision kept as src/unnamed/part_000).                 *)
(*                                                                         *)
(* The script is a set of cooperating async functions.  Each component is  *)
(* modelled as a state machine over its own variables and is explored by   *)
(* its own specification (SpecMap, SpecPage, ...); all specifications      *)
(* share one initial state, in which every component is idle.              *)
(*                                                                         *)
(* JavaScript values are modelled as tagged tuples:                        *)
(*   <<"undef">>  <<"null">>  <<"nan">>  <<"num", n>>  <<"str", s>>        *)
(*   <<"bool", b>>  <<"arr">>  <<"obj">>                                   *)
(***************************************************************************)
EXTENDS Integers, Sequences, FiniteSets, TLC

VARIABLES
    \* ---- mapWithConcurrency (src/script.js 280-303)
    items,          \* the items argument
    concurrency,    \* the concurrency argument
    results,        \* the results array (holes until a worker stores a value)
    nextIndex,      \* the shared nextIndex counter (0-based, as in the code)
    workers,        \* one record per worker() call: its position and currentIndex
    calls,          \* every handler invocation so far, in the order it was started
    mapState,       \* the promise mapWithConcurrency returns
    mapReturned,    \* the array it resolved with
    settleOrder,    \* the handler invocations in the order their promises settled
    \* ---- fetchAbsoluteJson (src/script.js 323-360)
    fetchPc,        \* where the call is suspended: fetching, reading, backoff, ...
    attempt,        \* the loop variable `attempt`
    lastError,      \* the local `lastError`
    timeoutArmed,   \* the abort timer of the current attempt is set and has not fired
    response,       \* the response of the current attempt, once its headers arrived
    attemptLog,     \* one entry per fetch() issued: how that attempt ended
    delays,         \* every delay(ms) awaited so far
    fetchResult,    \* the value returned, or the error thrown
    \* ---- getPagedGames (src/script.js 177-190)
    pagePc,         \* idle, awaiting (a fetchJson call is pending), returned, threw
    games,          \* the local array `games`
    cursor,         \* the local `cursor`
    requestLog,     \* the page requests issued, in order
    responseLog,    \* the payloads received, in order
    pageReturned,   \* the array returned
    \* ---- readSnapshot / writeSnapshot (src/script.js 391-424)
    storage,        \* localStorage: what getItem returns for each key
    now,            \* Date.now()
    lastWrite,      \* the last writeSnapshot call: key, data, whether setItem raised
    lastRead,       \* the last readSnapshot call: its arguments, what it saw and returned
    cacheOps,       \* how many storage calls and clock steps have been explored
    \* ---- getOwnedGroups (src/script.js 136-158)
    groupsPc,       \* idle, awaiting (the roles request is pending), returned, threw
    rolesData,      \* payload.data of the roles response
    groupsReturned, \* the array getOwnedGroups returned
    \* ---- collectGames (src/script.js 192-206)
    collectArgs,    \* the arguments of the last call: userGames, groupGames
    collected,      \* what it returned
    \* ---- the aggregation stage of loadPortfolioStats (src/script.js 49-66)
    cyclePc,        \* idle, groupGames (the per-group fetches run), done
    userGames,      \* const userGames
    ownedGroups,    \* const ownedGroups
    groupGamesSets, \* per owned group: not settled yet, or what getGroupGamesSafe gave
    allGames,       \* const allGames
    rolimonsPlayersByPlace,  \* const rolimonsPlayersByPlace
    universePlayingById,     \* const universePlayingById
    totals,         \* const totals
    cycleRoles,     \* the roles payload the cycle's getOwnedGroups call received
    \* ---- getUniversePlayingById (src/script.js 243-270) and the earlier
    \* ---- getUniverseStats (src/unnamed/part_000 143-167)
    batchPc,        \* idle, awaiting (a batch request is pending), returned, threw
    batchFn,        \* which of the two functions runs
    universeIds,    \* its argument
    chunks,         \* const chunks
    batchRequests,  \* the chunks requested so far, one request each
    batchResponses, \* the responses received so far
    batchResult,    \* stats (getUniverseStats) or playingById (getUniversePlayingById)
    \* ---- fetchJson (src/script.js 305-321)
    jsonPc,         \* idle, requesting, backoff, returned, threw
    jsonService,    \* its argument service
    jsonPath,       \* its argument path
    jsonHostIndex,  \* the position in hosts the for-of loop is at
    jsonAttempt,    \* fetchAbsoluteJson's attempt for the current host
    jsonInnerError, \* fetchAbsoluteJson's lastError for the current host
    jsonLastError,  \* fetchJson's lastError
    jsonRequests,   \* every request issued: url, attempt, outcome
    jsonResult,     \* what the call returned or threw
    \* ---- the page: the script from its load on (src/script.js 30-100)
    loaded,         \* the script has run its top level
    localStore,     \* localStorage: what each key holds
    storageDenied,  \* every access to localStorage raises (storage is blocked)
    storageFull,    \* every setItem raises (no quota left, or no access)
    dateNow,        \* Date.now()
    dom,            \* refreshButton.disabled, the stat texts, grid, timestamp, status line
    cycles,         \* the calls of loadPortfolioStats in flight, in the order they started
    finished,       \* the locals of the call that ended last, as it ended
    started         \* how many calls of loadPortfolioStats the page has made

mapVars == <<items, concurrency, results, nextIndex, workers, calls, mapState,
             mapReturned, settleOrder>>

fetchVars == <<fetchPc, attempt, lastError, timeoutArmed, response, attemptLog,
               delays, fetchResult>>

pageVars == <<pagePc, games, cursor, requestLog, responseLog, pageReturned>>

cacheVars == <<storage, now, lastWrite, lastRead, cacheOps>>

groupsVars == <<groupsPc, rolesData, groupsReturned>>

collectVars == <<collectArgs, collected>>

cycleVars == <<cyclePc, userGames, ownedGroups, groupGamesSets, allGames,
               rolimonsPlayersByPlace, universePlayingById, totals, cycleRoles>>

batchVars == <<batchPc, batchFn, universeIds, chunks, batchRequests, batchResponses,
               batchResult>>

jsonVars == <<jsonPc, jsonService, jsonPath, jsonHostIndex, jsonAttempt, jsonInnerError, jsonLastError, jsonRequests, jsonResult>>

refreshVars == <<loaded, localStore, storageDenied, storageFull, dateNow, dom, cycles, finished, started>>

vars == <<mapVars, fetchVars, pageVars, cacheVars, groupsVars, collectVars,
          cycleVars, batchVars, jsonVars, refreshVars>>

\* The variables each component leaves alone.
nonMapVars ==
    <<fetchVars, pageVars, cacheVars, groupsVars, collectVars, cycleVars,
      batchVars, jsonVars, refreshVars>>
nonFetchVars ==
    <<mapVars, pageVars, cacheVars, groupsVars, collectVars, cycleVars,
      batchVars, jsonVars, refreshVars>>
nonPageVars ==
    <<mapVars, fetchVars, cacheVars, groupsVars, collectVars, cycleVars,
      batchVars, jsonVars, refreshVars>>
nonCacheVars ==
    <<mapVars, fetchVars, pageVars, groupsVars, collectVars, cycleVars,
      batchVars, jsonVars, refreshVars>>
nonGroupsVars ==
    <<mapVars, fetchVars, pageVars, cacheVars, collectVars, cycleVars,
      batchVars, jsonVars, refreshVars>>
nonCollectVars ==
    <<mapVars, fetchVars, pageVars, cacheVars, groupsVars, cycleVars,
      batchVars, jsonVars, refreshVars>>
nonCycleVars ==
    <<mapVars, fetchVars, pageVars, cacheVars, groupsVars, collectVars,
      batchVars, jsonVars, refreshVars>>
nonBatchVars ==
    <<mapVars, fetchVars, pageVars, cacheVars, groupsVars, collectVars,
      cycleVars, jsonVars, refreshVars>>
nonJsonVars ==
    <<mapVars, fetchVars, pageVars, cacheVars, groupsVars, collectVars,
      cycleVars, batchVars, refreshVars>>
nonRefreshVars ==
    <<mapVars, fetchVars, pageVars, cacheVars, groupsVars, collectVars,
      cycleVars, batchVars, jsonVars>>

----------------------------------------------------------------------------
(* Bounds of the exploration.                                              *)

MaxItems == 4
MaxConcurrency == 3
MaxPages == 3
StartMs == 5000
MaxCacheOps == 3
MaxRoles == 3
MaxGames == 4
MaxCycleRoles == 2
MaxUniverses == 101
MaxCalls == 2
LoadMs == 100000000

ItemSet == {"a", "b"}

Min(a, b) == IF a <= b THEN a ELSE b

SeqsUpTo(S, n) == UNION {[1..k -> S] : k \in 0..n}

----------------------------------------------------------------------------
(* mapWithConcurrency                                                      *)

Hole == <<"hole">>

\* The value the handler's promise fulfils with for handler(item, index).
HandlerResult(item, index) == <<"res", item, index>>

\* Mutant of WorkerCount: one worker per item, the limit ignored.
WorkerCountUnbounded(limit, n) == n

\* const count = Math.min(concurrency, items.length)
WorkerCount(limit, n) == Min(limit, n)

\* Mutant of StoreResult: results filled in completion order (a push).
StoreResultInCompletionOrder(res, currentIndex, value) ==
    LET holes == {i \in 1..Len(res) : res[i] = Hole}
    IN  IF holes = {} THEN res
        ELSE [res EXCEPT ![CHOOSE i \in holes : \A j \in holes : i <= j] = value]

\* results[currentIndex] = <the awaited value>
StoreResult(res, currentIndex, value) == [res EXCEPT ![currentIndex + 1] = value]

\* One pass of the worker loop from its top to its next suspension:
\* take nextIndex, bump it, return when past the end, else start the handler
\* and suspend on its promise.  m is [nextIndex, calls]; the result adds the
\* worker's record.
WorkerAdvance(m, its) ==
    LET currentIndex == m.nextIndex
    IN  IF currentIndex >= Len(its)
        THEN [nextIndex |-> m.nextIndex + 1,
              calls     |-> m.calls,
              worker    |-> [pc |-> "returned", currentIndex |-> currentIndex, call |-> 0]]
        ELSE [nextIndex |-> m.nextIndex + 1,
              calls     |-> Append(m.calls, [item  |-> its[currentIndex + 1],
                                             index |-> currentIndex,
                                             state |-> "pending"]),
              worker    |-> [pc |-> "await", currentIndex |-> currentIndex,
                             call |-> Len(m.calls) + 1]]

\* for (let i = 0; i < count; i += 1) workers.push(worker())
\* Each worker() call runs synchronously up to its first await.
RECURSIVE SpawnWorkers(_, _, _)
SpawnWorkers(count, m, its) ==
    IF count = 0 THEN [nextIndex |-> m.nextIndex, calls |-> m.calls, workers |-> <<>>]
    ELSE LET prev == SpawnWorkers(count - 1, m, its)
             step == WorkerAdvance([nextIndex |-> prev.nextIndex, calls |-> prev.calls], its)
         IN  [nextIndex |-> step.nextIndex,
              calls     |-> step.calls,
              workers   |-> Append(prev.workers, step.worker)]

PendingCalls == {k \in 1..Len(calls) : calls[k].state = "pending"}

\* The call of mapWithConcurrency(items, concurrency, handler): its synchronous
\* part, up to `await Promise.all(workers)`.
MapCall ==
    /\ mapState = "idle"
    /\ \E its \in SeqsUpTo(ItemSet, MaxItems), limit \in 1..MaxConcurrency :
         LET spawned == SpawnWorkers(WorkerCount(limit, Len(its)),
                                     [nextIndex |-> 0, calls |-> <<>>], its)
         IN  /\ items' = its
             /\ concurrency' = limit
             /\ results' = [i \in 1..Len(its) |-> Hole]
             /\ nextIndex' = spawned.nextIndex
             /\ calls' = spawned.calls
             /\ workers' = spawned.workers
             /\ mapState' = "running"
             /\ mapReturned' = <<>>
             /\ settleOrder' = <<>>
    /\ UNCHANGED nonMapVars

\* A handler's promise settles: fulfilled with its result, or rejected.
HandlerSettle ==
    /\ \E k \in PendingCalls, outcome \in {"fulfilled", "rejected"} :
         /\ calls' = [calls EXCEPT ![k].state = outcome]
         /\ settleOrder' = Append(settleOrder, k)
    /\ UNCHANGED <<items, concurrency, results, nextIndex, workers, mapState, mapReturned>>
    /\ UNCHANGED nonMapVars

\* A worker resumes after its await: it stores the value and loops, or
\* rethrows the rejection (the worker's promise rejects, and with it
\* Promise.all and the promise of mapWithConcurrency; the other workers go on).
WorkerResume ==
    \E w \in 1..Len(workers) :
      /\ workers[w].pc = "await"
      /\ calls[workers[w].call].state # "pending"
      /\ IF calls[workers[w].call].state = "fulfilled"
         THEN LET c    == calls[workers[w].call]
                  step == WorkerAdvance([nextIndex |-> nextIndex, calls |-> calls], items)
              IN  /\ results' = StoreResult(results, workers[w].currentIndex,
                                            HandlerResult(c.item, c.index))
                  /\ nextIndex' = step.nextIndex
                  /\ calls' = step.calls
                  /\ workers' = [workers EXCEPT ![w] = step.worker]
                  /\ UNCHANGED mapState
         ELSE /\ workers' = [workers EXCEPT ![w].pc = "threw"]
              /\ mapState' = IF mapState = "running" THEN "rejected" ELSE mapState
              /\ UNCHANGED <<results, nextIndex, calls>>
      /\ UNCHANGED <<items, concurrency, mapReturned, settleOrder>>
      /\ UNCHANGED nonMapVars

\* await Promise.all(workers); return results
MapReturn ==
    /\ mapState = "running"
    /\ \A w \in 1..Len(workers) : workers[w].pc = "returned"
    /\ mapState' = "resolved"
    /\ mapReturned' = results
    /\ UNCHANGED <<items, concurrency, results, nextIndex, workers, calls, settleOrder>>
    /\ UNCHANGED nonMapVars

MapInit ==
    /\ items = <<>>
    /\ concurrency = 0
    /\ results = <<>>
    /\ nextIndex = 0
    /\ workers = <<>>
    /\ calls = <<>>
    /\ mapState = "idle"
    /\ mapReturned = <<>>
    /\ settleOrder = <<>>


----------------------------------------------------------------------------
(* JavaScript values and the coercions the script applies to them.         *)

Undef == <<"undef">>
Null == <<"null">>
NaN == <<"nan">>
Num(n) == <<"num", n>>
Str(s) == <<"str", s>>
Bool(b) == <<"bool", b>>
EmptyArr == <<"arr">>
EmptyObj == <<"obj">>

IsNum(v) == v[1] = "num"

\* The string literals of the model that Number() reads as a number.
NumericLiterals ==
    {<<"", 0>>, <<"0", 0>>, <<"1", 1>>, <<"2", 2>>, <<"5", 5>>, <<"-1", -1>>, <<"255", 255>>,
     <<"11", 11>>, <<"12", 12>>}

\* Number(v)
ToNumber(v) ==
    CASE v[1] = "undef" -> NaN
      [] v[1] = "null"  -> Num(0)
      [] v[1] = "nan"   -> NaN
      [] v[1] = "num"   -> v
      [] v[1] = "bool"  -> IF v[2] THEN Num(1) ELSE Num(0)
      [] v[1] = "str"   -> IF \E p \in NumericLiterals : p[1] = v[2]
                           THEN Num((CHOOSE p \in NumericLiterals : p[1] = v[2])[2])
                           ELSE NaN
      [] v[1] = "arr"   -> Num(0)
      [] OTHER          -> NaN

\* v ?? d
Coalesce(v, d) == IF v = Undef \/ v = Null THEN d ELSE v

\* a > b, a <= b, a >= b on numbers: every comparison with NaN is false
JsGt(a, b) == IsNum(a) /\ IsNum(b) /\ a[2] > b[2]
JsLe(a, b) == IsNum(a) /\ IsNum(b) /\ a[2] <= b[2]
JsGe(a, b) == IsNum(a) /\ IsNum(b) /\ a[2] >= b[2]

\* a - b, a + b, a * b
JsSub(a, b) == IF IsNum(a) /\ IsNum(b) THEN Num(a[2] - b[2]) ELSE NaN
JsAdd(a, b) == IF IsNum(a) /\ IsNum(b) THEN Num(a[2] + b[2]) ELSE NaN
JsMul(a, b) == IF IsNum(a) /\ IsNum(b) THEN Num(a[2] * b[2]) ELSE NaN

\* Number.isFinite(v): the model has no infinities
IsFinite(v) == IsNum(v)

\* Truthiness: if (v), !v, while (v)
Truthy(v) ==
    CASE v[1] = "undef" -> FALSE
      [] v[1] = "null"  -> FALSE
      [] v[1] = "nan"   -> FALSE
      [] v[1] = "num"   -> v[2] # 0
      [] v[1] = "bool"  -> v[2]
      [] v[1] = "str"   -> v[2] # ""
      [] v[1] = "chars" -> v[2] # <<>>
      [] OTHER          -> TRUE

----------------------------------------------------------------------------
(* fetchAbsoluteJson                                                       *)

MAX_ATTEMPTS == 3
BACKOFF_BASE_MS == 300

\* What response.headers.get("retry-after") can return on a non-2xx response:
\* null (no header), a number of seconds, or an HTTP date.
RetryAfterHeaders ==
    {Null, Str("2"), Str("5"), Str("0"), Str("-1"), Str("Wed, 21 Oct 2026 07:28:00 GMT")}

ErrorStatuses == {429, 500}
Bodies == {"bodyA", "bodyB"}

NoError == [kind |-> "none", at |-> 0, status |-> Undef, retryAfterMs |-> Undef]

\* const err = new Error(...); err.status = response.status;
\* err.retryAfterMs = Number.isFinite(raw) ? raw * 1000 : null
\* `at` identifies the attempt that raised the error.
HttpError(status, header, at) ==
    LET retryAfterRaw == ToNumber(header)
    IN  [kind |-> "http", at |-> at, status |-> Num(status),
         retryAfterMs |-> IF IsFinite(retryAfterRaw) THEN JsMul(retryAfterRaw, Num(1000))
                          ELSE Null]

\* The errors fetch() and response.json() reject with carry no retryAfterMs.
PlainError(kind, at) == [kind |-> kind, at |-> at, status |-> Undef, retryAfterMs |-> Undef]

\* Mutant of BackoffMs: linear backoff (the earlier revision's 225 * attempt shape).
BackoffMsLinear(error, n) ==
    IF JsGt(ToNumber(error.retryAfterMs), Num(0))
    THEN ToNumber(error.retryAfterMs)[2]
    ELSE BACKOFF_BASE_MS * n

\* Number(error.retryAfterMs) > 0 ? Number(error.retryAfterMs) : 300 * attempt * attempt
BackoffMs(error, n) ==
    IF JsGt(ToNumber(error.retryAfterMs), Num(0))
    THEN ToNumber(error.retryAfterMs)[2]
    ELSE BACKOFF_BASE_MS * n * n

\* Mutant of MoreAttempts: one attempt too many.
MoreAttemptsOffByOne(n) == n <= MAX_ATTEMPTS + 1

\* the loop condition: attempt <= 3
MoreAttempts(n) == n <= MAX_ATTEMPTS

\* Mutant of RecordError: the first error is kept.
RecordErrorKeepFirst(prev, error) == IF prev = NoError THEN error ELSE prev

\* lastError = error
RecordError(prev, error) == error

\* The catch block: record the error and start the backoff delay.
\* The log keeps the retry-after header of the response that failed, if any.
Catch(error, header) ==
    /\ lastError' = RecordError(lastError, error)
    /\ delays' = Append(delays, BackoffMs(error, attempt))
    /\ attemptLog' = [attemptLog EXCEPT ![Len(attemptLog)] = [outcome |-> error.kind,
                                                                 error |-> error,
                                                                 body |-> "",
                                                                 header |-> header]]
    /\ fetchPc' = "backoff"

\* The top of one loop iteration: a new controller, the abort timer, fetch(url).
IssueAttempt(n) ==
    /\ attempt' = n
    /\ timeoutArmed' = TRUE
    /\ response' = [ok |-> FALSE, body |-> ""]
    /\ attemptLog' = Append(attemptLog, [outcome |-> "pending", error |-> NoError, body |-> "",
                                         header |-> Undef])
    /\ fetchPc' = "fetching"

\* fetchAbsoluteJson(url) is called: attempt 1 is issued at once.
FetchCall ==
    /\ fetchPc = "idle"
    /\ attemptLog = <<>>
    /\ IssueAttempt(1)
    /\ UNCHANGED <<lastError, delays, fetchResult>>
    /\ UNCHANGED nonFetchVars

\* await fetch(...) settles with a response: 2xx goes on to response.json(),
\* anything else throws the error built from status and retry-after.
FetchResponds ==
    /\ fetchPc = "fetching"
    /\ \/ \E body \in Bodies \cup {"<html>"} :
            /\ response' = [ok |-> TRUE, body |-> body]
            /\ fetchPc' = "reading"
            /\ UNCHANGED <<lastError, delays, attemptLog>>
       \/ \E status \in ErrorStatuses, header \in RetryAfterHeaders :
            /\ Catch(HttpError(status, header, attempt), header)
            /\ UNCHANGED response
    /\ UNCHANGED <<attempt, timeoutArmed, fetchResult>>
    /\ UNCHANGED nonFetchVars

\* await fetch(...) rejects: the network failed.
FetchNetworkError ==
    /\ fetchPc = "fetching"
    /\ Catch(PlainError("network", attempt), Undef)
    /\ UNCHANGED <<attempt, timeoutArmed, response, fetchResult>>
    /\ UNCHANGED nonFetchVars

\* await response.json() settles: the parsed body is returned (the finally
\* block clears the timer), or the body does not parse and json() rejects.
ReadBody ==
    /\ fetchPc = "reading"
    /\ IF response.body \in Bodies
       THEN /\ fetchPc' = "returned"
            /\ fetchResult' = [kind |-> "value", body |-> response.body, error |-> NoError]
            /\ attemptLog' = [attemptLog EXCEPT ![Len(attemptLog)] =
                                 [outcome |-> "ok", error |-> NoError, body |-> response.body,
                                  header |-> Undef]]
            /\ timeoutArmed' = FALSE
            /\ UNCHANGED <<lastError, delays>>
       ELSE /\ Catch(PlainError("syntax", attempt), Undef)
            /\ UNCHANGED <<timeoutArmed, fetchResult>>
    /\ UNCHANGED <<attempt, response>>
    /\ UNCHANGED nonFetchVars

\* The FETCH_TIMEOUT_MS timer fires: controller.abort().  A request still in
\* flight (or its body still being read) rejects with an AbortError; after
\* that the abort has no effect.
TimerFires ==
    /\ timeoutArmed
    /\ timeoutArmed' = FALSE
    /\ IF fetchPc \in {"fetching", "reading"}
       THEN Catch(PlainError("abort", attempt), Undef)
       ELSE UNCHANGED <<lastError, delays, attemptLog, fetchPc>>
    /\ UNCHANGED <<attempt, response, fetchResult>>
    /\ UNCHANGED nonFetchVars

\* await delay(backoffMs) ends: the finally block clears the timer, attempt is
\* incremented, and the loop either issues the next attempt or falls through
\* to `throw lastError`.
BackoffEnds ==
    /\ fetchPc = "backoff"
    /\ IF MoreAttempts(attempt + 1)
       THEN /\ IssueAttempt(attempt + 1)
            /\ UNCHANGED fetchResult
       ELSE /\ fetchPc' = "threw"
            /\ fetchResult' = [kind |-> "error", body |-> "", error |-> lastError]
            /\ timeoutArmed' = FALSE
            /\ attempt' = attempt + 1
            /\ UNCHANGED <<response, attemptLog>>
    /\ UNCHANGED <<lastError, delays>>
    /\ UNCHANGED nonFetchVars

FetchInit ==
    /\ fetchPc = "idle"
    /\ attempt = 0
    /\ lastError = NoError
    /\ timeoutArmed = FALSE
    /\ response = [ok |-> FALSE, body |-> ""]
    /\ attemptLog = <<>>
    /\ delays = <<>>
    /\ fetchResult = [kind |-> "none", body |-> "", error |-> NoError]


----------------------------------------------------------------------------
(* getPagedGames                                                           *)

\* A cursor is a string, kept as its characters: <<"chars", <<c1, c2, ...>>>>.
Chars(cs) == <<"chars", cs>>

\* The cursor tokens a page can carry, and the ways it can carry none.
CursorTokens == {Chars(<<"a">>), Chars(<<"b", "=">>), Chars(<<"%", "3", "D">>)}
NoCursor == {Null, Undef, Chars(<<>>)}

\* payload.data of a page: arrays of game records, or something that is no array.
Arr(elems) == [isArray |-> TRUE, elems |-> elems]
NotArray == [isArray |-> FALSE, elems |-> <<>>]
PageDataSet == {Arr(<<>>), Arr(<<"g1">>), Arr(<<"g2", "g1">>), NotArray}

\* encodeURIComponent on the characters the cursors use.
EscapeChar(c) ==
    CASE c = "=" -> <<"%", "3", "D">>
      [] c = "%" -> <<"%", "2", "5">>
      [] OTHER   -> <<c>>

\* Mutant of EncodeURIComponent: the cursor is appended unescaped.
EncodeURIComponentIdentity(cs) == cs

RECURSIVE EncodeURIComponent(_)
EncodeURIComponent(cs) ==
    IF cs = <<>> THEN <<>> ELSE EscapeChar(Head(cs)) \o EncodeURIComponent(Tail(cs))

\* What the server reads back from the query string.
RECURSIVE DecodeURIComponent(_)
DecodeURIComponent(cs) ==
    IF cs = <<>> THEN <<>>
    ELSE IF Head(cs) = "%" /\ Len(cs) >= 3
         THEN (CASE SubSeq(cs, 1, 3) = <<"%", "3", "D">> -> <<"=">>
                 [] SubSeq(cs, 1, 3) = <<"%", "2", "5">> -> <<"%">>
                 [] OTHER -> <<"?">>) \o DecodeURIComponent(SubSeq(cs, 4, Len(cs)))
         ELSE <<Head(cs)>> \o DecodeURIComponent(Tail(cs))

\* const pagePath = cursor ? `${path}&cursor=${encodeURIComponent(cursor)}` : path
PagePath(cur) ==
    IF Truthy(cur) THEN [path |-> "games", cursorParam |-> Chars(EncodeURIComponent(cur[2]))]
    ELSE [path |-> "games", cursorParam |-> Undef]

\* const pageData = Array.isArray(payload.data) ? payload.data : []
PageData(payload) == IF payload.data.isArray THEN payload.data.elems ELSE <<>>

\* Mutant of NextCursor: the cursor of the first page is kept for every request.
NextCursorStale(prev, payload) == IF Truthy(prev) THEN prev ELSE payload.nextPageCursor

\* cursor = payload.nextPageCursor
NextCursor(prev, payload) == payload.nextPageCursor

\* getPagedGames(path) is called: the first pass of the loop issues the first
\* request and suspends on it.
PagedCall ==
    /\ pagePc = "idle"
    /\ requestLog = <<>>
    /\ games' = <<>>
    /\ cursor' = Null
    /\ requestLog' = <<PagePath(Null)>>
    /\ pagePc' = "awaiting"
    /\ UNCHANGED <<responseLog, pageReturned>>
    /\ UNCHANGED nonPageVars

\* fetchJson resolves with a page: its items are appended and the loop either
\* issues the request for the next page or ends.  The server hands out at most
\* MaxPages - 1 cursors.
PageResponds ==
    /\ pagePc = "awaiting"
    /\ \E data \in PageDataSet,
          next \in (IF Len(responseLog) + 1 < MaxPages THEN CursorTokens ELSE {}) \cup NoCursor :
         LET payload == [data |-> data, nextPageCursor |-> next]
             cur     == NextCursor(cursor, payload)
         IN  /\ responseLog' = Append(responseLog, payload)
             /\ games' = games \o PageData(payload)
             /\ cursor' = cur
             /\ IF Truthy(cur)
                THEN /\ requestLog' = Append(requestLog, PagePath(cur))
                     /\ UNCHANGED <<pagePc, pageReturned>>
                ELSE /\ pagePc' = "returned"
                     /\ pageReturned' = games'
                     /\ UNCHANGED requestLog
    /\ UNCHANGED nonPageVars

\* fetchJson rejects (every host failed): getPagedGames rejects with it.
PageFails ==
    /\ pagePc = "awaiting"
    /\ pagePc' = "threw"
    /\ UNCHANGED <<games, cursor, requestLog, responseLog, pageReturned>>
    /\ UNCHANGED nonPageVars

PageInit ==
    /\ pagePc = "idle"
    /\ games = <<>>
    /\ cursor = Null
    /\ requestLog = <<>>
    /\ responseLog = <<>>
    /\ pageReturned = <<>>


----------------------------------------------------------------------------
(* readSnapshot / writeSnapshot                                            *)

CACHE_KEY == "mensch_portfolio_snapshot_v2"
ROLIMONS_CACHE_KEY == "mensch_rolimons_gamelist_v1"
CACHE_MAX_AGE_MS == 10 * 60 * 1000
CACHE_FAILOVER_MAX_AGE_MS == 24 * 60 * 60 * 1000

StorageKeys == {CACHE_KEY, ROLIMONS_CACHE_KEY}

\* The instants the clock passes through: the start, and the instants just
\* inside and just outside each age ceiling counted from the start.
TimePoints ==
    {StartMs,
     StartMs + CACHE_MAX_AGE_MS, StartMs + CACHE_MAX_AGE_MS + 1,
     StartMs + CACHE_FAILOVER_MAX_AGE_MS, StartMs + CACHE_FAILOVER_MAX_AGE_MS + 1}

\* A JavaScript object with the two properties the model follows; a property
\* the object does not have reads as undefined.
Obj(updatedAtMs, payload) == <<"object", [updatedAtMs |-> updatedAtMs, payload |-> payload]>>

\* What localStorage.getItem can return: null, or a string, which is empty, or
\* is no JSON text, or is the JSON text of a value.  In a JSON text a property
\* is absent or holds a JSON value; there is no NaN and no undefined.
Missing == <<"missing">>
EmptyText == <<"text", "">>
Garbage == <<"text", "{oops">>
Absent == <<"absent">>
JsonText(jv) == <<"json", jv>>

\* JSON.stringify on a property value: undefined drops the property, NaN
\* becomes null.
StringifyValue(v) ==
    CASE v = Undef -> Absent
      [] v = NaN   -> Null
      [] v[1] = "portfolio" ->
           <<"portfolio",
             [v[2] EXCEPT !.totals = [f \in DOMAIN v[2].totals |->
                                        IF v[2].totals[f] = NaN THEN Null ELSE v[2].totals[f]]]>>
      [] OTHER     -> v

\* JSON.stringify(data)
JsonStringify(v) ==
    IF v[1] = "object"
    THEN JsonText(<<"object", [updatedAtMs |-> StringifyValue(v[2].updatedAtMs),
                               payload     |-> StringifyValue(v[2].payload)]>>)
    ELSE JsonText(StringifyValue(v))

ParseValue(jv) == IF jv = Absent THEN Undef ELSE jv

\* JSON.parse(raw), for a raw that is a JSON text
JsonParse(raw) ==
    IF raw[2][1] = "object"
    THEN <<"object", [updatedAtMs |-> ParseValue(raw[2][2].updatedAtMs),
                      payload     |-> ParseValue(raw[2][2].payload)]>>
    ELSE raw[2]

\* typeof v
TypeOf(v) ==
    CASE v[1] \in {"object", "arr", "null"} -> "object"
      [] v[1] \in {"num", "nan"}            -> "number"
      [] v[1] = "str"                       -> "string"
      [] v[1] = "bool"                      -> "boolean"
      [] OTHER                              -> "undefined"

\* parsed.updatedAtMs
UpdatedAtMsOf(parsed) == IF parsed[1] = "object" THEN parsed[2].updatedAtMs ELSE Undef

\* Mutant of TooOld: the ceiling is off by one (>=).
TooOldInclusive(nowMs, updatedAtMs, maxAgeMs) ==
    JsGe(JsSub(Num(nowMs), updatedAtMs), Num(maxAgeMs))

\* Date.now() - updatedAtMs > maxAgeMs
TooOld(nowMs, updatedAtMs, maxAgeMs) ==
    JsGt(JsSub(Num(nowMs), updatedAtMs), Num(maxAgeMs))

\* readSnapshot(key, maxAgeMs), given what getItem does (raw, or it raises)
ReadSnapshot(raw, getItemRaises, nowMs, maxAgeMs) ==
    IF getItemRaises THEN Null
    ELSE IF raw = Missing \/ raw = EmptyText THEN Null
    ELSE IF raw[1] # "json" THEN Null
    ELSE LET parsed == JsonParse(raw)
         IN  IF ~Truthy(parsed) \/ TypeOf(parsed) # "object" THEN Null
             ELSE LET updatedAtMs == ToNumber(Coalesce(UpdatedAtMsOf(parsed), Num(0)))
                  IN  IF JsLe(updatedAtMs, Num(0)) THEN Null
                      ELSE IF TooOld(nowMs, updatedAtMs, maxAgeMs) THEN Null
                      ELSE parsed

\* Mutant of WriteSnapshot: a write of a key that already holds an entry is skipped.
WriteSnapshotOnce(store, key, data, setItemRaises) ==
    IF setItemRaises \/ store[key] # Missing THEN store
    ELSE [store EXCEPT ![key] = JsonStringify(data)]

\* Mutant of WriteSnapshot: every write goes to the portfolio key.
WriteSnapshotUnderCacheKey(store, key, data, setItemRaises) ==
    IF setItemRaises THEN store
    ELSE [store EXCEPT !["mensch_portfolio_snapshot_v2"] = JsonStringify(data)]

\* writeSnapshot(key, data): the error of a failing setItem is swallowed
WriteSnapshot(store, key, data, setItemRaises) ==
    IF setItemRaises THEN store
    ELSE [store EXCEPT ![key] = JsonStringify(data)]

\* The values updatedAtMs can hold in an entry found in storage.
StoredTimestamps ==
    {Absent, Null, Num(0), Num(-5), Num(StartMs), Str("5"), Str("abc"), Bool(TRUE)}

\* The entries a key can hold when the page loads: nothing, text that is no
\* JSON, JSON that is no object, or an object left by an earlier visit.
StoredEntries ==
    {Missing, EmptyText, Garbage,
     JsonText(Null), JsonText(Num(5)), JsonText(Str("x")), JsonText(EmptyArr)}
    \cup {JsonText(<<"object", [updatedAtMs |-> u, payload |-> Num(2000)]>>) :
            u \in StoredTimestamps}

\* The payloads the script stores beside updatedAtMs: totals are sums of
\* Number(...) values, so they can be NaN.
Payloads == {Num(2000), NaN}

NoWrite == [key |-> "", data |-> Null, raised |-> FALSE, at |-> 0, read |-> FALSE]
NoRead == [key |-> "", maxAgeMs |-> 0, raw |-> Missing, raised |-> FALSE, at |-> 0,
           result |-> Null, afterWrite |-> FALSE, write |-> NoWrite]

\* The calls the script makes: the portfolio key is read with either ceiling,
\* the secondary provider's key with the short one.
ReadCalls ==
    {<<CACHE_KEY, CACHE_MAX_AGE_MS>>, <<CACHE_KEY, CACHE_FAILOVER_MAX_AGE_MS>>,
     <<ROLIMONS_CACHE_KEY, CACHE_MAX_AGE_MS>>}

\* The page loads with whatever an earlier visit left under the portfolio key.
StorageFound ==
    /\ cacheOps = 0
    /\ lastWrite = NoWrite
    /\ lastRead = NoRead
    /\ \A k \in StorageKeys : storage[k] = Missing
    /\ \E raw \in StoredEntries \ {Missing} :
         storage' = [storage EXCEPT ![CACHE_KEY] = raw]
    /\ UNCHANGED <<now, lastWrite, lastRead, cacheOps>>
    /\ UNCHANGED nonCacheVars

\* Time passes.
ClockAdvances ==
    /\ cacheOps < MaxCacheOps
    /\ cacheOps' = cacheOps + 1
    /\ \E t \in TimePoints : t > now /\ now' = t
    /\ UNCHANGED <<storage, lastWrite, lastRead>>
    /\ UNCHANGED nonCacheVars

\* writeSnapshot(key, {..., updatedAtMs: Date.now()})
WriteSnapshotCall ==
    /\ cacheOps < MaxCacheOps
    /\ cacheOps' = cacheOps + 1
    /\ \E key \in StorageKeys, payload \in Payloads, setItemRaises \in BOOLEAN :
         LET data == Obj(Num(now), payload)
         IN  /\ storage' = WriteSnapshot(storage, key, data, setItemRaises)
             /\ lastWrite' = [key |-> key, data |-> data, raised |-> setItemRaises,
                              at |-> now, read |-> FALSE]
    /\ UNCHANGED <<now, lastRead>>
    /\ UNCHANGED nonCacheVars

\* readSnapshot(key, maxAgeMs)
ReadSnapshotCall ==
    /\ cacheOps < MaxCacheOps
    /\ cacheOps' = cacheOps + 1
    /\ \E call \in ReadCalls, getItemRaises \in BOOLEAN :
         LET key      == call[1]
             maxAgeMs == call[2]
         IN  lastRead' =
               [key |-> key, maxAgeMs |-> maxAgeMs, raw |-> storage[key],
                raised |-> getItemRaises, at |-> now,
                result |-> ReadSnapshot(storage[key], getItemRaises, now, maxAgeMs),
                afterWrite |-> (lastWrite # NoWrite /\ lastWrite.key = key
                                /\ ~lastWrite.read),
                write |-> lastWrite]
    /\ lastWrite' = [lastWrite EXCEPT !.read = TRUE]
    /\ UNCHANGED <<storage, now>>
    /\ UNCHANGED nonCacheVars

CacheInit ==
    /\ storage = [k \in StorageKeys |-> Missing]
    /\ now = StartMs
    /\ lastWrite = NoWrite
    /\ lastRead = NoRead
    /\ cacheOps = 0


----------------------------------------------------------------------------
(* getOwnedGroups                                                          *)

OWNER_RANK == 255

\* entry.role.rank as the roles endpoint can send it: a lower rank, the
\* owner's rank, or the owner's rank as a string.
Ranks == {Num(254), Num(OWNER_RANK), Str("255")}

\* entry.group: id, name, memberCount (absent in one of them).
GroupObjects ==
    {[id |-> Num(1),   name |-> "A",  memberCount |-> Num(500)],
     [id |-> Num(1),   name |-> "A'", memberCount |-> Num(1500)],
     [id |-> Num(2),   name |-> "B",  memberCount |-> Num(1500)],
     [id |-> Num(2),   name |-> "B'", memberCount |-> Num(500)],
     [id |-> Str("1"), name |-> "A$", memberCount |-> Undef]}

RoleEntries == {[rank |-> r, group |-> g] : r \in Ranks, g \in GroupObjects}

\* Mutant of IsOwnedGroup: the rank is coerced instead of type-checked.
IsOwnedGroupCoerced(entry) == JsGe(ToNumber(entry.rank), Num(OWNER_RANK))

\* typeof rank === "number" && rank >= 255
IsOwnedGroup(entry) == TypeOf(entry.rank) = "number" /\ JsGe(entry.rank, Num(OWNER_RANK))

\* { id: Number(entry.group.id), name, memberCount: Number(entry.group.memberCount ?? 0) }
OwnedRecord(entry) ==
    [id          |-> ToNumber(entry.group.id),
     name        |-> entry.group.name,
     memberCount |-> ToNumber(Coalesce(entry.group.memberCount, Num(0)))]

\* roles.filter(isOwnedGroup).map(...)
RECURSIVE FilterMapOwned(_)
FilterMapOwned(roles) ==
    IF roles = <<>> THEN <<>>
    ELSE (IF IsOwnedGroup(Head(roles)) THEN <<OwnedRecord(Head(roles))>> ELSE <<>>)
         \o FilterMapOwned(Tail(roles))

\* Mutant of MapSet: a key already present keeps its first value.
MapSetKeepFirst(entries, key, value) ==
    IF \E i \in 1..Len(entries) : entries[i].key = key THEN entries
    ELSE Append(entries, [key |-> key, value |-> value])

\* Map.prototype.set: a new key is added at the end, a key already present
\* keeps its place and takes the new value.
MapSet(entries, key, value) ==
    IF \E i \in 1..Len(entries) : entries[i].key = key
    THEN [i \in 1..Len(entries) |->
            IF entries[i].key = key THEN [key |-> key, value |-> value] ELSE entries[i]]
    ELSE Append(entries, [key |-> key, value |-> value])

\* Array.from(map.values())
MapValues(entries) == [i \in 1..Len(entries) |-> entries[i].value]

\* for (const group of owned) deduped.set(group.id, group)
RECURSIVE DedupeById(_)
DedupeById(owned) ==
    IF owned = <<>> THEN <<>>
    ELSE LET last == owned[Len(owned)]
         IN  MapSet(DedupeById(SubSeq(owned, 1, Len(owned) - 1)), last.id, last)

\* One insertion of the stable sort: x goes before the first element it must
\* precede under (a, b) => b.memberCount - a.memberCount.
InsertByMemberCount(sorted, x) ==
    LET before == {i \in 1..Len(sorted) : JsGt(x.memberCount, sorted[i].memberCount)}
        pos    == IF before = {} THEN Len(sorted) + 1
                  ELSE CHOOSE i \in before : \A j \in before : i <= j
    IN  SubSeq(sorted, 1, pos - 1) \o <<x>> \o SubSeq(sorted, pos, Len(sorted))

\* .sort((a, b) => b.memberCount - a.memberCount)
RECURSIVE SortByMemberCountDesc(_)
SortByMemberCountDesc(groups) ==
    IF groups = <<>> THEN <<>>
    ELSE InsertByMemberCount(SortByMemberCountDesc(SubSeq(groups, 1, Len(groups) - 1)),
                             groups[Len(groups)])

\* const roles = Array.isArray(payload.data) ? payload.data : []
RolesOf(data) == IF data.isArray THEN data.elems ELSE <<>>

\* The value getOwnedGroups resolves with for a roles payload.
OwnedGroupsOf(data) ==
    SortByMemberCountDesc(MapValues(DedupeById(FilterMapOwned(RolesOf(data)))))

\* getOwnedGroups(userId) is called: the roles request is issued.
OwnedGroupsCall ==
    /\ groupsPc = "idle"
    /\ groupsPc' = "awaiting"
    /\ UNCHANGED <<rolesData, groupsReturned>>
    /\ UNCHANGED nonGroupsVars

\* fetchJson resolves with the roles payload.
RolesArrive ==
    /\ groupsPc = "awaiting"
    /\ \E data \in {NotArray} \cup {Arr(roles) : roles \in SeqsUpTo(RoleEntries, MaxRoles)} :
         /\ rolesData' = data
         /\ groupsReturned' = OwnedGroupsOf(data)
    /\ groupsPc' = "returned"
    /\ UNCHANGED nonGroupsVars

\* fetchJson rejects: getOwnedGroups rejects with it.
RolesFail ==
    /\ groupsPc = "awaiting"
    /\ groupsPc' = "threw"
    /\ UNCHANGED <<rolesData, groupsReturned>>
    /\ UNCHANGED nonGroupsVars

GroupsInit ==
    /\ groupsPc = "idle"
    /\ rolesData = NotArray
    /\ groupsReturned = <<>>

----------------------------------------------------------------------------
(* collectGames                                                            *)

\* The game records the games endpoints can send: id, rootPlace.id and
\* placeVisits, each possibly absent; one id is not a number.
GameObjects ==
    {[id |-> Num(1),     rootPlaceId |-> Num(11), placeVisits |-> Num(10)],
     [id |-> Num(2),     rootPlaceId |-> Num(12), placeVisits |-> Num(20)],
     [id |-> Num(2),     rootPlaceId |-> Undef,   placeVisits |-> Num(30)],
     [id |-> Num(3),     rootPlaceId |-> Num(13), placeVisits |-> Undef],
     [id |-> Num(0),     rootPlaceId |-> Num(14), placeVisits |-> Num(40)],
     [id |-> Undef,      rootPlaceId |-> Num(15), placeVisits |-> Num(50)],
     [id |-> Str("abc"), rootPlaceId |-> Num(16), placeVisits |-> Num(60)]}

\* { universeId, rootPlaceId, placeVisits }: Number(... ?? 0) of each field
GameRecord(game) ==
    [universeId  |-> ToNumber(Coalesce(game.id, Num(0))),
     rootPlaceId |-> ToNumber(Coalesce(game.rootPlaceId, Num(0))),
     placeVisits |-> ToNumber(Coalesce(game.placeVisits, Num(0)))]

\* The loop body: if (universeId <= 0) continue; map.set(universeId, record)
CollectOne(map, game) ==
    LET record == GameRecord(game)
    IN  IF JsLe(record.universeId, Num(0)) THEN map
        ELSE MapSet(map, record.universeId, record)

RECURSIVE CollectInto(_, _)
CollectInto(map, gameList) ==
    IF gameList = <<>> THEN map
    ELSE CollectInto(CollectOne(map, Head(gameList)), Tail(gameList))

\* collectGames(userGames, groupGames)
CollectGames(uGames, gGames) == MapValues(CollectInto(<<>>, uGames \o gGames))

\* collectGames is applied to the account's games and the communities' games.
CollectGamesCall ==
    /\ collectArgs.called = FALSE
    /\ \E all \in SeqsUpTo(GameObjects, MaxGames) :
         \E split \in 0..Len(all) :
           LET uGames == SubSeq(all, 1, split)
               gGames == SubSeq(all, split + 1, Len(all))
           IN  /\ collectArgs' = [called |-> TRUE, userGames |-> uGames, groupGames |-> gGames]
               /\ collected' = CollectGames(uGames, gGames)
    /\ UNCHANGED nonCollectVars

CollectInit ==
    /\ collectArgs = [called |-> FALSE, userGames |-> <<>>, groupGames |-> <<>>]
    /\ collected = <<>>


----------------------------------------------------------------------------
(* buildTotals and the aggregation stage of loadPortfolioStats             *)

\* Map.prototype.get
MapGet(entries, key) ==
    IF \E i \in 1..Len(entries) : entries[i].key = key
    THEN (CHOOSE e \in {entries[i] : i \in 1..Len(entries)} : e.key = key).value
    ELSE Undef

\* Mutant of SumBy: the accumulator is replaced instead of added to.
SumByOverwrite(list, key) ==
    IF list = <<>> THEN Num(0)
    ELSE ToNumber(Coalesce(list[Len(list)][key], Num(0)))

\* items.reduce((total, item) => total + Number(item[key] ?? 0), 0)
RECURSIVE SumBy(_, _)
SumBy(list, key) ==
    IF list = <<>> THEN Num(0)
    ELSE JsAdd(SumBy(SubSeq(list, 1, Len(list) - 1), key),
               ToNumber(Coalesce(list[Len(list)][key], Num(0))))

\* Mutant of PlayingOf: the primary provider's figure is left out.
PlayingOfWithoutFallback(game, rolimons, universePlaying) ==
    LET placeId         == ToNumber(Coalesce(game.rootPlaceId, Num(0)))
        rolimonsPlaying == IF JsGt(placeId, Num(0)) THEN MapGet(rolimons, placeId) ELSE Undef
    IN  ToNumber(Coalesce(rolimonsPlaying, Num(0)))

\* The playing count one game adds: the secondary provider's figure for its
\* root place when there is one, else the primary provider's for its universe.
PlayingOf(game, rolimons, universePlaying) ==
    LET placeId         == ToNumber(Coalesce(game.rootPlaceId, Num(0)))
        rolimonsPlaying == IF JsGt(placeId, Num(0)) THEN MapGet(rolimons, placeId) ELSE Undef
        fallbackPlaying == ToNumber(Coalesce(MapGet(universePlaying, game.universeId), Num(0)))
    IN  ToNumber(Coalesce(rolimonsPlaying, fallbackPlaying))

\* The loop of buildTotals: visits and playing summed over allGames.
RECURSIVE SumGames(_, _, _)
SumGames(gameList, rolimons, universePlaying) ==
    IF gameList = <<>> THEN [visits |-> Num(0), playing |-> Num(0)]
    ELSE LET rest == SumGames(SubSeq(gameList, 1, Len(gameList) - 1), rolimons, universePlaying)
             game == gameList[Len(gameList)]
         IN  [visits  |-> JsAdd(rest.visits, ToNumber(Coalesce(game.placeVisits, Num(0)))),
              playing |-> JsAdd(rest.playing, PlayingOf(game, rolimons, universePlaying))]

\* buildTotals(ownedGroups, allGames, rolimonsPlayersByPlace, universePlayingById)
BuildTotals(groups, gameList, rolimons, universePlaying) ==
    [visits       |-> SumGames(gameList, rolimons, universePlaying).visits,
     groupMembers |-> SumBy(groups, "memberCount"),
     playing      |-> SumGames(gameList, rolimons, universePlaying).playing]

NotSettled == [settled |-> FALSE, failed |-> FALSE, games |-> <<>>]

\* What the account's games listing and a community's games listing can hold.
UserGameLists ==
    {<<>>, <<[id |-> Num(1), rootPlaceId |-> Num(11), placeVisits |-> Num(10)]>>}
GroupGameLists ==
    {<<[id |-> Num(2), rootPlaceId |-> Num(12), placeVisits |-> Num(20)]>>,
     <<[id |-> Num(1), rootPlaceId |-> Undef, placeVisits |-> Num(30)],
       [id |-> Num(3), rootPlaceId |-> Num(13), placeVisits |-> Undef]>>}

\* The per-place map of the secondary provider (empty when it is unavailable)
\* and the per-universe map of the primary provider's batch endpoint.
RolimonsMaps == {<<>>, <<[key |-> Num(11), value |-> Num(5)], [key |-> Num(12), value |-> Num(7)]>>}
UniversePlayingMaps == {<<>>, <<[key |-> Num(1), value |-> Num(2)], [key |-> Num(3), value |-> Num(4)]>>}

\* groupGamesSets.flat()
RECURSIVE Flat(_)
Flat(sets) == IF sets = <<>> THEN <<>> ELSE Head(sets).games \o Flat(Tail(sets))

SettledCount(sets) == Cardinality({i \in 1..Len(sets) : sets[i].settled})

\* Promise.all([getUserGames, getOwnedGroups]) resolves, and mapWithConcurrency
\* starts getGroupGamesSafe for the first two owned groups.
CycleListsArrive ==
    /\ cyclePc = "idle"
    /\ \E uGames \in UserGameLists,
          data \in {NotArray} \cup {Arr(roles) : roles \in SeqsUpTo(RoleEntries, MaxCycleRoles)} :
         /\ userGames' = uGames
         /\ cycleRoles' = data
         /\ ownedGroups' = OwnedGroupsOf(data)
         /\ groupGamesSets' = [i \in 1..Len(OwnedGroupsOf(data)) |-> NotSettled]
    /\ cyclePc' = "groupGames"
    /\ UNCHANGED <<allGames, rolimonsPlayersByPlace, universePlayingById, totals>>
    /\ UNCHANGED nonCycleVars

\* getGroupGamesSafe(group.id) settles for one of the (at most two) groups in
\* flight: with the group's games, or with [] after a failed listing.
GroupGamesSettle ==
    /\ cyclePc = "groupGames"
    /\ \E i \in 1..Len(groupGamesSets) :
         /\ ~groupGamesSets[i].settled
         /\ i <= SettledCount(groupGamesSets) + 2
         /\ \/ \E gGames \in GroupGameLists :
                 groupGamesSets' = [groupGamesSets EXCEPT
                                      ![i] = [settled |-> TRUE, failed |-> FALSE, games |-> gGames]]
            \/ groupGamesSets' = [groupGamesSets EXCEPT
                                    ![i] = [settled |-> TRUE, failed |-> TRUE, games |-> <<>>]]
    /\ UNCHANGED <<cyclePc, userGames, ownedGroups, allGames, rolimonsPlayersByPlace,
                   universePlayingById, totals, cycleRoles>>
    /\ UNCHANGED nonCycleVars

\* Every group settled: the games are merged, the playing maps obtained (the
\* primary provider's only when the secondary's is empty) and the totals built.
TotalsBuilt ==
    /\ cyclePc = "groupGames"
    /\ \A i \in 1..Len(groupGamesSets) : groupGamesSets[i].settled
    /\ \E rolimons \in RolimonsMaps, fallback \in UniversePlayingMaps :
         LET merged          == CollectGames(userGames, Flat(groupGamesSets))
             universePlaying == IF Len(rolimons) = 0 THEN fallback ELSE <<>>
         IN  /\ allGames' = merged
             /\ rolimonsPlayersByPlace' = rolimons
             /\ universePlayingById' = universePlaying
             /\ totals' = BuildTotals(ownedGroups, merged, rolimons, universePlaying)
    /\ cyclePc' = "done"
    /\ UNCHANGED <<userGames, ownedGroups, groupGamesSets, cycleRoles>>
    /\ UNCHANGED nonCycleVars

NoTotals == [visits |-> Num(0), groupMembers |-> Num(0), playing |-> Num(0)]

CycleInit ==
    /\ cyclePc = "idle"
    /\ userGames = <<>>
    /\ ownedGroups = <<>>
    /\ groupGamesSets = <<>>
    /\ allGames = <<>>
    /\ rolimonsPlayersByPlace = <<>>
    /\ universePlayingById = <<>>
    /\ totals = NoTotals
    /\ cycleRoles = NotArray

----------------------------------------------------------------------------
(* The batch endpoint: getUniversePlayingById, and getUniverseStats of the *)
(* earlier revision                                                        *)

PLAYING_CHUNK_SIZE == 100
STATS_CHUNK_SIZE == 30

BatchFunctions == {"getUniversePlayingById", "getUniverseStats"}

ChunkSizeOf(fn) == IF fn = "getUniversePlayingById" THEN PLAYING_CHUNK_SIZE ELSE STATS_CHUNK_SIZE

\* Mutant of Slice: the end index is inclusive.
SliceInclusive(values, from, to) == SubSeq(values, from + 1, Min(to + 1, Len(values)))

\* values.slice(from, to), 0-based, end exclusive
Slice(values, from, to) == SubSeq(values, from + 1, Min(to, Len(values)))

\* for (let index = 0; index < values.length; index += size) chunks.push(values.slice(index, index + size))
RECURSIVE ChunksFrom(_, _, _)
ChunksFrom(values, index, size) ==
    IF index >= Len(values) THEN <<>>
    ELSE <<Slice(values, index, index + size)>> \o ChunksFrom(values, index + size, size)

ChunkArray(values, size) == ChunksFrom(values, 0, size)

\* What the batch endpoint answers: data as an array (here abridged to the
\* playing figure its items carry), or a payload without a data array.
BatchAnswers == {[isArray |-> TRUE, playing |-> 0], [isArray |-> TRUE, playing |-> 3],
                 [isArray |-> FALSE, playing |-> 0]}

\* response.data as the loops read it: an item per requested id, or nothing
\* when data is no array.
AnswerItems(chunk, answer) ==
    IF answer.isArray
    THEN [i \in 1..Len(chunk) |-> [id |-> Num(chunk[i]), playing |-> Num(answer.playing)]]
    ELSE <<>>

\* The body of for (const item of items): skip ids <= 0, else
\* playingById.set(universeId, Number(item.playing ?? 0))
SetOnePlaying(map, item) ==
    LET universeId == ToNumber(Coalesce(item.id, Num(0)))
    IN  IF JsLe(universeId, Num(0)) THEN map
        ELSE MapSet(map, universeId, ToNumber(Coalesce(item.playing, Num(0))))

\* The item loop, in order.  The list is halved, and map is measured on
\* entry so that TLC evaluates it before it descends (Len(map) < 0 is never
\* true): both only keep the evaluation shallow for chunks of 100 items.
RECURSIVE SetPlaying(_, _)
SetPlaying(map, answerItems) ==
    IF answerItems = <<>> \/ Len(map) < 0 THEN map
    ELSE IF Len(answerItems) = 1 THEN SetOnePlaying(map, answerItems[1])
    ELSE LET half == Len(answerItems) \div 2
         IN  SetPlaying(SetPlaying(map, SubSeq(answerItems, 1, half)),
                        SubSeq(answerItems, half + 1, Len(answerItems)))

\* for (const response of responses): the map getUniversePlayingById returns
RECURSIVE PlayingById(_, _, _)
PlayingById(map, requests, responses) ==
    IF responses = <<>> THEN map
    ELSE PlayingById(SetPlaying(map, AnswerItems(Head(requests), Head(responses))),
                     Tail(requests), Tail(responses))

\* What the function holds as its result once `answer` to the pending request
\* is in: getUniverseStats pushes the items as they come, getUniversePlayingById
\* fills its map after the last response.
ResultAfter(answer, last) ==
    IF batchFn = "getUniverseStats"
    THEN batchResult \o AnswerItems(batchRequests[Len(batchRequests)], answer)
    ELSE IF last THEN PlayingById(<<>>, batchRequests, Append(batchResponses, answer))
         ELSE batchResult

\* The function is called with the ids of the merged games.  With no id it
\* returns at once; else the chunks are cut and the first one is requested.
BatchCall ==
    /\ batchPc = "idle"
    /\ \E fn \in BatchFunctions, n \in 0..MaxUniverses :
         LET ids == [i \in 1..n |-> i]
             cut == ChunkArray(ids, ChunkSizeOf(fn))
         IN  /\ batchFn' = fn
             /\ universeIds' = ids
             /\ IF n = 0
                THEN /\ batchPc' = "returned"
                     /\ chunks' = <<>>
                     /\ batchRequests' = <<>>
                ELSE /\ batchPc' = "awaiting"
                     /\ chunks' = cut
                     /\ batchRequests' = <<cut[1]>>
    /\ UNCHANGED <<batchResponses, batchResult>>
    /\ UNCHANGED nonBatchVars

\* The pending request is answered: the next chunk is requested, or the
\* function returns.
BatchResponds ==
    /\ batchPc = "awaiting"
    /\ \E answer \in BatchAnswers :
         /\ batchResponses' = Append(batchResponses, answer)
         /\ batchResult' = ResultAfter(answer, Len(batchRequests) = Len(chunks))
    /\ IF Len(batchRequests) < Len(chunks)
       THEN /\ batchRequests' = Append(batchRequests, chunks[Len(batchRequests) + 1])
            /\ UNCHANGED batchPc
       ELSE /\ batchPc' = "returned"
            /\ UNCHANGED batchRequests
    /\ UNCHANGED <<batchFn, universeIds, chunks>>
    /\ UNCHANGED nonBatchVars

\* fetchJson rejects: the function rejects and requests no further chunk.
BatchFails ==
    /\ batchPc = "awaiting"
    /\ batchPc' = "threw"
    /\ UNCHANGED <<batchFn, universeIds, chunks, batchRequests, batchResponses, batchResult>>
    /\ UNCHANGED nonBatchVars

BatchInit ==
    /\ batchPc = "idle"
    /\ batchFn = ""
    /\ universeIds = <<>>
    /\ chunks = <<>>
    /\ batchRequests = <<>>
    /\ batchResponses = <<>>
    /\ batchResult = <<>>

----------------------------------------------------------------------------
(* fetchJson: the mirror hosts of a service, each through fetchAbsoluteJson *)

API_HOSTS ==
    [groups |-> <<"https://groups.roproxy.com", "https://groups.roblox.com">>,
     games  |-> <<"https://games.roproxy.com", "https://games.roblox.com">>]

\* The service names callers pass ("groups", "games"), a name that is no key
\* of API_HOSTS, and a name API_HOSTS inherits from Object.prototype.
Services == {"groups", "games", "users", "constructor"}
Paths == {"/v1/a", "/v2/b"}
HostErrorKinds == {"http", "network", "abort", "syntax"}

\* API_HOSTS[service]
HostsOf(service) ==
    IF service \in DOMAIN API_HOSTS THEN API_HOSTS[service]
    ELSE IF service = "constructor" THEN "function Object"
    ELSE "undefined"

\* if (!hosts): only undefined is falsy among the values HostsOf gives
HostsMissing(service) == HostsOf(service) = "undefined"

\* for (const host of hosts) raises a TypeError when hosts is not iterable
HostsIterable(service) == service \in DOMAIN API_HOSTS

NoHostError == [kind |-> "none", url |-> <<"", "">>, at |-> 0]

\* The error the attempt `at` for url ended with.
HostError(kind, url, at) == [kind |-> kind, url |-> url, at |-> at]

\* `${host}${path}`
UrlOf(host, path) == <<host, path>>

\* Mutant of CatchHostError: the first host's error is kept.
CatchHostErrorKeepFirst(prev, error) == IF prev = NoHostError THEN error ELSE prev

\* catch (error) { lastError = error; }
CatchHostError(prev, error) == error

CurrentUrl == UrlOf(API_HOSTS[jsonService][jsonHostIndex], jsonPath)

\* fetchAbsoluteJson issues attempt n for the host at position index of the
\* service's list.
IssueHostRequest(service, path, index, n) ==
    /\ jsonHostIndex' = index
    /\ jsonAttempt' = n
    /\ jsonRequests' = Append(jsonRequests,
                              [url |-> UrlOf(API_HOSTS[service][index], path),
                               attempt |-> n, outcome |-> "pending"])
    /\ jsonPc' = "requesting"

\* fetchJson(service, path) is called.
FetchJsonCall ==
    /\ jsonPc = "idle"
    /\ \E service \in Services, path \in Paths :
         /\ jsonService' = service
         /\ jsonPath' = path
         /\ IF HostsMissing(service)
            THEN /\ jsonPc' = "threw"
                 /\ jsonResult' = [kind |-> "error",
                                   error |-> HostError("unknown service", <<"", "">>, 0), body |-> ""]
                 /\ UNCHANGED <<jsonHostIndex, jsonAttempt, jsonRequests>>
            ELSE IF ~HostsIterable(service)
            THEN /\ jsonPc' = "threw"
                 /\ jsonResult' = [kind |-> "error",
                                   error |-> HostError("type error", <<"", "">>, 0), body |-> ""]
                 /\ UNCHANGED <<jsonHostIndex, jsonAttempt, jsonRequests>>
            ELSE /\ IssueHostRequest(service, path, 1, 1)
                 /\ UNCHANGED jsonResult
    /\ UNCHANGED <<jsonInnerError, jsonLastError>>
    /\ UNCHANGED nonJsonVars

\* The pending request succeeds: fetchAbsoluteJson returns the parsed body and
\* fetchJson returns it.
HostRequestOk ==
    /\ jsonPc = "requesting"
    /\ \E body \in Bodies :
         jsonResult' = [kind |-> "value", error |-> NoHostError, body |-> body]
    /\ jsonRequests' = [jsonRequests EXCEPT ![Len(jsonRequests)].outcome = "ok"]
    /\ jsonPc' = "returned"
    /\ UNCHANGED <<jsonService, jsonPath, jsonHostIndex, jsonAttempt, jsonInnerError,
                   jsonLastError>>
    /\ UNCHANGED nonJsonVars

\* The pending request fails: fetchAbsoluteJson records the error and waits.
HostRequestFails ==
    /\ jsonPc = "requesting"
    /\ \E kind \in HostErrorKinds :
         /\ jsonInnerError' = RecordError(jsonInnerError, HostError(kind, CurrentUrl, jsonAttempt))
         /\ jsonRequests' = [jsonRequests EXCEPT ![Len(jsonRequests)].outcome = kind]
    /\ jsonPc' = "backoff"
    /\ UNCHANGED <<jsonService, jsonPath, jsonHostIndex, jsonAttempt, jsonLastError, jsonResult>>
    /\ UNCHANGED nonJsonVars

\* The backoff delay ends: the next attempt for the same host; or
\* fetchAbsoluteJson throws its lastError, fetchJson records it and goes to the
\* next host, or throws after the last one.
HostBackoffEnds ==
    /\ jsonPc = "backoff"
    /\ IF MoreAttempts(jsonAttempt + 1)
       THEN /\ IssueHostRequest(jsonService, jsonPath, jsonHostIndex, jsonAttempt + 1)
            /\ UNCHANGED <<jsonInnerError, jsonLastError, jsonResult>>
       ELSE /\ jsonLastError' = CatchHostError(jsonLastError, jsonInnerError)
            /\ jsonInnerError' = NoHostError
            /\ IF jsonHostIndex < Len(API_HOSTS[jsonService])
               THEN /\ IssueHostRequest(jsonService, jsonPath, jsonHostIndex + 1, 1)
                    /\ UNCHANGED jsonResult
               ELSE /\ jsonPc' = "threw"
                    /\ jsonResult' = [kind |-> "error", error |-> jsonLastError', body |-> ""]
                    /\ UNCHANGED <<jsonHostIndex, jsonAttempt, jsonRequests>>
    /\ UNCHANGED <<jsonService, jsonPath>>
    /\ UNCHANGED nonJsonVars

JsonInit ==
    /\ jsonPc = "idle"
    /\ jsonService = ""
    /\ jsonPath = ""
    /\ jsonHostIndex = 0
    /\ jsonAttempt = 0
    /\ jsonInnerError = NoHostError
    /\ jsonLastError = NoHostError
    /\ jsonRequests = <<>>
    /\ jsonResult = [kind |-> "none", error |-> NoHostError, body |-> ""]

----------------------------------------------------------------------------
(* The page: localStorage, the clock, the DOM                              *)

TOTAL_VISITS_ID == "totalVisits"
TOTAL_MEMBERS_ID == "totalMembers"
TOTAL_PLAYING_ID == "totalPlaying"
StatIds == {TOTAL_VISITS_ID, TOTAL_MEMBERS_ID, TOTAL_PLAYING_ID}

\* The texts the script puts into the status line, the grid and the timestamp.
STATUS_NONE == <<"">>
STATUS_CACHED == <<"Showing cached stats while refreshing...">>
STATUS_LOADING == <<"Loading live Roblox stats...">>
StatusLive(universeCount) == <<"Live data loaded from ", universeCount, " universes.">>
StatusLiveFallback(universeCount) ==
    <<"Live data loaded from ", universeCount, " universes (playing fallback mode).">>
STATUS_FAILOVER == <<"Live refresh failed. Showing last saved stats.">>
STATUS_UNABLE == <<"Unable to load live stats right now. Please try Refresh Live Stats.">>
GRID_NOT_LOADED == <<"message", "Owned groups could not be loaded right now.">>
GRID_NONE_FOUND == <<"message", "No owned groups were found.">>
PLACEHOLDER == Str("-")
LOADING_DOTS == Str("...")

\* The part of a portfolio snapshot beside updatedAtMs.
Portfolio(sums, groups, universeCount) ==
    <<"portfolio", [totals |-> sums, ownedGroups |-> groups, universeCount |-> universeCount]>>

\* The part of a secondary-provider blob beside updatedAtMs; playersByPlace is
\* an object, <<"entries", its entries>>, or undefined.
RolimonsBlob(playersByPlace) == <<"rolimons", [playersByPlace |-> playersByPlace]>>

\* What an earlier visit stored.
EarlierPortfolio ==
    Portfolio([visits |-> Num(70), groupMembers |-> Num(900), playing |-> Num(9)],
              <<[id |-> Num(9), name |-> "Z", memberCount |-> Num(900)]>>, 1)

\* A stored object with a timestamp and owned groups, and no totals field.
PortfolioWithoutTotals ==
    <<"portfolio", [ownedGroups |-> <<>>, universeCount |-> 1]>>

\* What the portfolio key can hold when the page loads: nothing, text that is
\* no JSON, or a snapshot that is fresh, older than 10 minutes, exactly 24
\* hours old, or carries a timestamp that is no number; or an object without
\* totals, fresh or older than 10 minutes.
StoredSnapshots ==
    {Missing, Garbage}
    \cup {JsonText(<<"object", [updatedAtMs |-> u, payload |-> EarlierPortfolio]>>) :
            u \in {Num(LoadMs - 1), Num(LoadMs - CACHE_MAX_AGE_MS - 1),
                   Num(LoadMs - CACHE_FAILOVER_MAX_AGE_MS), Str("abc")}}
    \cup {JsonText(<<"object", [updatedAtMs |-> u, payload |-> PortfolioWithoutTotals]>>) :
            u \in {Num(LoadMs - 1), Num(LoadMs - CACHE_MAX_AGE_MS - 1)}}

\* What the secondary provider's key can hold when the page loads: nothing, or
\* a fresh blob whose playersByPlace has an entry, or none.
StoredBlobs ==
    {Missing,
     JsonText(<<"object", [updatedAtMs |-> Num(LoadMs - 1),
                           payload |-> RolimonsBlob(<<"entries", <<[key |-> Str("11"), value |-> Num(5)]>>>>)]>>),
     JsonText(<<"object", [updatedAtMs |-> Num(LoadMs - 1), payload |-> RolimonsBlob(<<"entries", <<>>>>)]>>)}

\* snapshot.totals, snapshot.ownedGroups, snapshot.updatedAtMs
TotalsOf(snapshot) == snapshot[2].payload[2].totals
OwnedGroupsIn(snapshot) == snapshot[2].payload[2].ownedGroups
UniverseCountOf(snapshot) == snapshot[2].payload[2].universeCount

\* Mutant of DisabledFor: the button is left enabled.
DisabledForNever(isLoading) == FALSE

\* refreshButton.disabled = isLoading
DisabledFor(isLoading) == isLoading

\* setLoadingState(isLoading): the button, and "..." into the stat elements
\* that are empty when loading starts.
SetLoadingState(d, isLoading) ==
    [d EXCEPT !.disabled = DisabledFor(isLoading),
              !.stats = [id \in StatIds |->
                           IF isLoading /\ d.stats[id] = Str("") THEN LOADING_DOTS
                           ELSE d.stats[id]]]

\* renderOwnedGroups(groups)
RenderOwnedGroups(groups) ==
    IF Len(groups) = 0 THEN GRID_NONE_FOUND ELSE <<"cards", groups>>

\* renderSnapshot(snapshot, isCached) throws: snapshot.totals is undefined
\* and reading snapshot.totals.visits is a TypeError, before anything is
\* rendered.
RenderSnapshotThrows(snapshot) ==
    /\ snapshot # Null
    /\ "totals" \notin DOMAIN snapshot[2].payload[2]

\* Mutant of RenderSnapshot: the cached mark is always set.
RenderSnapshotAlwaysCached(d, snapshot, isCached, nowMs) ==
    IF snapshot = Null THEN d
    ELSE [d EXCEPT !.stats = [id \in StatIds |->
                      ToNumber(Coalesce(TotalsOf(snapshot)[
                          CASE id = TOTAL_VISITS_ID -> "visits"
                            [] id = TOTAL_MEMBERS_ID -> "groupMembers"
                            [] OTHER -> "playing"], Num(0)))],
                   !.grid = RenderOwnedGroups(OwnedGroupsIn(snapshot)),
                   !.updatedAt = <<"date", ToNumber(IF Truthy(snapshot[2].updatedAtMs)
                                                    THEN snapshot[2].updatedAtMs ELSE Num(nowMs)),
                                   TRUE>>]

\* renderSnapshot(snapshot, isCached): the three stats (the values the
\* animation ends at), the grid and the timestamp with its cached mark.
RenderSnapshot(d, snapshot, isCached, nowMs) ==
    IF snapshot = Null THEN d
    ELSE [d EXCEPT !.stats = [id \in StatIds |->
                      ToNumber(Coalesce(TotalsOf(snapshot)[
                          CASE id = TOTAL_VISITS_ID -> "visits"
                            [] id = TOTAL_MEMBERS_ID -> "groupMembers"
                            [] OTHER -> "playing"], Num(0)))],
                   !.grid = RenderOwnedGroups(OwnedGroupsIn(snapshot)),
                   !.updatedAt = <<"date", ToNumber(IF Truthy(snapshot[2].updatedAtMs)
                                                    THEN snapshot[2].updatedAtMs ELSE Num(nowMs)),
                                   isCached>>]

\* setStatus(text)
SetStatus(d, text) == [d EXCEPT !.status = text]

\* The else branch of the catch block: the placeholders and the message.
RenderErrorState(d) ==
    [d EXCEPT !.status = STATUS_UNABLE,
              !.stats = [id \in StatIds |-> PLACEHOLDER],
              !.grid = GRID_NOT_LOADED,
              !.updatedAt = PLACEHOLDER]

\* The document as the markup gives it to the script.
InitialDom ==
    [disabled |-> FALSE, stats |-> [id \in StatIds |-> Str("")], grid |-> <<"message", "">>,
     updatedAt |-> Str(""), status |-> STATUS_NONE]

----------------------------------------------------------------------------
(* loadPortfolioStats: the refresh cycles of the page                      *)

\* The locals of a call of loadPortfolioStats that has just started.
\* pc names the promise the call awaits: lists (Promise.all of the two
\* listings), groups (mapWithConcurrency), rolimons, batch; or how it ended.
NewCycle ==
    [pc |-> "lists",
     userGames |-> <<>>, ownedGroups |-> <<>>, groupGamesSets |-> <<>>, allGames |-> <<>>,
     settled |-> FALSE,          \* the promise awaited is resolved
     rolimonsFrom |-> "none",     \* cache, fetch or failed
     rolimonsRequested |-> FALSE, \* the secondary provider's request was issued
     rolimonsPlayersByPlace |-> <<>>,
     batchRequested |-> FALSE, universePlayingById |-> <<>>,
     raised |-> "none",           \* the fetch whose error reached the catch block
     setItemRaised |-> FALSE,     \* a setItem of this call raised
     snapshot |-> Null,           \* const snapshot
     failoverSnapshot |-> Null]   \* const failoverSnapshot

\* No call has ended yet.
NoCycle == [NewCycle EXCEPT !.pc = "none"]

\* The roles payload of an account that owns two communities.
CycleRoles ==
     Arr(<<[rank |-> Num(OWNER_RANK), group |-> [id |-> Num(1), name |-> "A", memberCount |-> Num(500)]],
           [rank |-> Num(OWNER_RANK), group |-> [id |-> Num(2), name |-> "B", memberCount |-> Num(1500)]]>>)

\* What the two listings of a cycle give: the account's games and the roles
\* payload.  An account with nothing, or with a game and two communities.
CycleListings ==
    {[userGames |-> <<>>, roles |-> NotArray],
     [userGames |-> <<[id |-> Num(1), rootPlaceId |-> Num(11), placeVisits |-> Num(10)]>>,
      roles |-> CycleRoles]}

\* The games listing of a community.
CycleGroupGames(groupId) ==
    IF groupId = Num(1)
    THEN <<[id |-> Num(2), rootPlaceId |-> Num(12), placeVisits |-> Num(20)]>>
    ELSE <<[id |-> Num(1), rootPlaceId |-> Undef, placeVisits |-> Num(30)],
           [id |-> Num(3), rootPlaceId |-> Num(13), placeVisits |-> Undef]>>

\* readSnapshot(key, maxAgeMs) on the page's storage
ReadKey(store, key, maxAgeMs) == ReadSnapshot(store[key], storageDenied, dateNow, maxAgeMs)

\* A click event reaches the listener: a disabled button dispatches none.
ClickDispatched == ~dom.disabled

\* seq without its c-th element
RemoveAt(seq, c) == SubSeq(seq, 1, c - 1) \o SubSeq(seq, c + 1, Len(seq))

\* Mutant of DomAfterStart: the loading state is set only when no cached
\* snapshot is there to show.
DomAfterStartSkipLoading(d, store, denied, nowMs) ==
    LET cachedSnapshot == ReadSnapshot(store[CACHE_KEY], denied, nowMs, CACHE_MAX_AGE_MS)
    IN  IF Truthy(cachedSnapshot)
        THEN IF RenderSnapshotThrows(cachedSnapshot) THEN d
             ELSE SetStatus(RenderSnapshot(d, cachedSnapshot, TRUE, nowMs), STATUS_CACHED)
        ELSE SetStatus(SetLoadingState(d, TRUE), STATUS_LOADING)

\* The start of loadPortfolioStats up to its first await, on the document d
\* and the storage store: what the document becomes.  When renderSnapshot
\* throws, the call ends there, with the loading state set.
DomAfterStart(d, store, denied, nowMs) ==
    LET cachedSnapshot == ReadSnapshot(store[CACHE_KEY], denied, nowMs, CACHE_MAX_AGE_MS)
        loading        == SetLoadingState(d, TRUE)
    IN  IF Truthy(cachedSnapshot)
        THEN IF RenderSnapshotThrows(cachedSnapshot) THEN loading
             ELSE SetStatus(RenderSnapshot(loading, cachedSnapshot, TRUE, nowMs), STATUS_CACHED)
        ELSE SetStatus(loading, STATUS_LOADING)

\* The start of loadPortfolioStats throws: renderSnapshot(cachedSnapshot, true)
\* stands before the try block, so the error rejects the call's promise and
\* neither the catch block nor the finally block runs.
StartThrows(store, denied, nowMs) ==
    RenderSnapshotThrows(ReadSnapshot(store[CACHE_KEY], denied, nowMs, CACHE_MAX_AGE_MS))

\* The calls in flight and the call that ended last, after a call started.
CyclesAfterStart(throws) == IF throws THEN cycles ELSE Append(cycles, NewCycle)
FinishedAfterStart(throws) ==
    IF throws THEN [NewCycle EXCEPT !.pc = "rejected", !.raised = "render"] ELSE finished

\* The script runs its top level: the listener is attached and
\* loadPortfolioStats() is called.  Storage holds what earlier visits left
\* and takes writes, or is full, or every access to it raises.
PageLoads ==
    /\ ~loaded
    /\ loaded' = TRUE
    /\ \E denied \in BOOLEAN, full \in BOOLEAN, raw \in StoredSnapshots, blob \in StoredBlobs :
         /\ denied => (full /\ raw = Missing /\ blob = Missing)
         /\ storageDenied' = denied
         /\ storageFull' = full
         /\ localStore' = [k \in StorageKeys |-> IF k = CACHE_KEY THEN raw ELSE blob]
         /\ dom' = DomAfterStart(InitialDom, localStore', denied, dateNow)
         /\ cycles' = CyclesAfterStart(StartThrows(localStore', denied, dateNow))
         /\ finished' = FinishedAfterStart(StartThrows(localStore', denied, dateNow))
    /\ started' = 1
    /\ UNCHANGED dateNow
    /\ UNCHANGED nonRefreshVars

\* The click listener of the refresh button: loadPortfolioStats() is called.
\* The click comes at once, or when more than the short age ceiling has passed.
RefreshClick ==
    /\ loaded
    /\ ClickDispatched
    /\ started < MaxCalls
    /\ started' = started + 1
    /\ \E wait \in {0, CACHE_MAX_AGE_MS + 1} :
         /\ dateNow' = dateNow + wait
         /\ dom' = DomAfterStart(dom, localStore, storageDenied, dateNow')
         /\ cycles' = CyclesAfterStart(StartThrows(localStore, storageDenied, dateNow'))
         /\ finished' = FinishedAfterStart(StartThrows(localStore, storageDenied, dateNow'))
    /\ UNCHANGED <<loaded, localStore, storageDenied, storageFull>>
    /\ UNCHANGED nonRefreshVars

\* The catch block and the finally block of call c, reached with the error
\* of the fetch `which`.  When renderSnapshot throws in the catch block, the
\* finally block still runs and the call's promise rejects.
CatchAndFinally(c, which) ==
    \E failoverSnapshot \in {ReadKey(localStore, CACHE_KEY, CACHE_FAILOVER_MAX_AGE_MS)} :
        /\ dom' = SetLoadingState(
                    IF Truthy(failoverSnapshot)
                    THEN IF RenderSnapshotThrows(failoverSnapshot) THEN dom
                         ELSE SetStatus(RenderSnapshot(dom, failoverSnapshot, TRUE, dateNow),
                                        STATUS_FAILOVER)
                    ELSE RenderErrorState(dom),
                    FALSE)
        /\ finished' = [cycles[c] EXCEPT
                          !.pc = IF RenderSnapshotThrows(failoverSnapshot) THEN "rejected"
                                 ELSE "failed",
                          !.raised = which,
                          !.failoverSnapshot = failoverSnapshot]
        /\ cycles' = RemoveAt(cycles, c)
        /\ UNCHANGED <<loaded, localStore, storageDenied, storageFull, dateNow, started>>

\* Promise.all([getUserGames, getOwnedGroups]) resolves: mapWithConcurrency
\* starts getGroupGamesSafe for the first two owned groups.
ListsArrive(c) ==
    /\ cycles[c].pc = "lists"
    /\ \E listing \in CycleListings :
         cycles' = [cycles EXCEPT
                      ![c].pc = "groups",
                      ![c].userGames = listing.userGames,
                      ![c].ownedGroups = OwnedGroupsOf(listing.roles),
                      ![c].groupGamesSets = [i \in 1..Len(OwnedGroupsOf(listing.roles)) |->
                                               NotSettled]]
    /\ UNCHANGED <<loaded, localStore, storageDenied, storageFull, dateNow, dom, finished, started>>
    /\ UNCHANGED nonRefreshVars

\* One of the two listings rejects, and with it Promise.all.
ListsFail(c) ==
    /\ cycles[c].pc = "lists"
    /\ \E which \in {"userGames", "ownedGroups"} : CatchAndFinally(c, which)
    /\ UNCHANGED nonRefreshVars

\* Mutant of GetGroupGamesSafeRejects: the error of the listing is let out.
GetGroupGamesSafeRethrows(failed) == failed

\* getGroupGamesSafe catches the error of getGroupGames: it never rejects.
GetGroupGamesSafeRejects(failed) == FALSE

\* getGroupGamesSafe(group.id) settles for one of the (at most two) groups in
\* flight: with the group's games, or with [] after a failed listing.
GroupSettles(c) ==
    /\ cycles[c].pc = "groups"
    /\ \E i \in 1..Len(cycles[c].groupGamesSets) :
         /\ ~cycles[c].groupGamesSets[i].settled
         /\ i <= SettledCount(cycles[c].groupGamesSets) + 2
         /\ \E failed \in BOOLEAN :
              IF GetGroupGamesSafeRejects(failed)
              THEN CatchAndFinally(c, "groupGames")
              ELSE /\ cycles' = [cycles EXCEPT ![c].groupGamesSets[i] =
                                   [settled |-> TRUE, failed |-> failed,
                                    games |-> IF failed THEN <<>>
                                              ELSE CycleGroupGames(cycles[c].ownedGroups[i].id)]]
                   /\ UNCHANGED <<loaded, localStore, storageDenied, storageFull, dateNow, dom,
                                  finished, started>>
    /\ UNCHANGED nonRefreshVars

\* What the secondary provider answers: null, or a game list whose entries
\* are arrays (name, players, ...) but for one.
RolimonsPayloads ==
    {Null,
     <<"payload", <<[key |-> Str("11"), isArray |-> TRUE, players |-> Num(5)],
                    [key |-> Str("12"), isArray |-> TRUE, players |-> Num(7)],
                    [key |-> Str("2"), isArray |-> FALSE, players |-> Undef]>>>>}

\* payload?.games ?? {}, as entries
GamesOf(payload) == IF payload = Null THEN <<>> ELSE payload[2]

\* The loop of getRolimonsPlayersByPlace: playersByPlace[placeId] = Number(details[1] ?? 0)
\* for the entries that are arrays and whose place id is not <= 0.
RECURSIVE PlayersByPlaceInto(_, _)
PlayersByPlaceInto(object, gameEntries) ==
    IF gameEntries = <<>> THEN object
    ELSE LET entry   == Head(gameEntries)
             placeId == ToNumber(entry.key)
         IN  PlayersByPlaceInto(
                 IF ~entry.isArray \/ JsLe(placeId, Num(0)) THEN object
                 ELSE MapSet(object, entry.key, ToNumber(Coalesce(entry.players, Num(0)))),
                 Tail(gameEntries))

\* toNumberMap(objectValue): map.set(Number(key), Number(value)) per entry
RECURSIVE ToNumberMapInto(_, _)
ToNumberMapInto(map, objectEntries) ==
    IF objectEntries = <<>> THEN map
    ELSE ToNumberMapInto(MapSet(map, ToNumber(Head(objectEntries).key),
                                ToNumber(Head(objectEntries).value)),
                         Tail(objectEntries))

ToNumberMap(objectValue) ==
    IF Truthy(objectValue) THEN ToNumberMapInto(<<>>, objectValue[2]) ELSE <<>>

\* cached.playersByPlace
PlayersByPlaceIn(cached) ==
    IF cached[2].payload[1] = "rolimons" THEN cached[2].payload[2].playersByPlace ELSE Undef

\* Mutant of WriteSnapshotThrows: the error of setItem is let out.
WriteSnapshotRethrows(setItemRaises) == setItemRaises

\* writeSnapshot's catch block is empty: no error leaves it.
WriteSnapshotThrows(setItemRaises) == FALSE

\* The rest of the try block once both playing maps are there, and the
\* finally block: totals, snapshot, writeSnapshot, renderSnapshot, status.
Finish(c, universePlaying) ==
    LET setItemRaises == storageFull
        cyc           == cycles[c]
    IN  \E sums \in {BuildTotals(cyc.ownedGroups, cyc.allGames, cyc.rolimonsPlayersByPlace,
                                 universePlaying)} :
          \E snapshot \in {Obj(Num(dateNow),
                               Portfolio(sums, cyc.ownedGroups, Len(cyc.allGames)))} :
             IF WriteSnapshotThrows(setItemRaises)
             THEN CatchAndFinally(c, "storage")
             ELSE /\ finished' = [cyc EXCEPT
                                    !.pc = "done", !.snapshot = snapshot,
                                    !.setItemRaised = cyc.setItemRaised \/ setItemRaises]
                  /\ localStore' = WriteSnapshot(localStore, CACHE_KEY, finished'.snapshot,
                                                 setItemRaises)
                  /\ dom' = SetLoadingState(
                              SetStatus(RenderSnapshot(dom, finished'.snapshot, FALSE, dateNow),
                                        IF Len(cyc.rolimonsPlayersByPlace) > 0
                                        THEN StatusLive(UniverseCountOf(finished'.snapshot))
                                        ELSE StatusLiveFallback(UniverseCountOf(finished'.snapshot))),
                              FALSE)
                  /\ cycles' = RemoveAt(cycles, c)
                  /\ UNCHANGED <<loaded, storageDenied, storageFull, dateNow, started>>

\* Mutant of CachedPlayersByPlace: the stored blob is never used.
CachedPlayersByPlaceNever(cached) == FALSE

\* cached && cached.playersByPlace
CachedPlayersByPlace(cached) ==
    IF Truthy(cached) THEN Truthy(PlayersByPlaceIn(cached)) ELSE FALSE

\* mapWithConcurrency resolved: the games are merged and
\* getRolimonsPlayersByPlaceSafe is called, which answers from its cache or
\* issues its request.
GroupsDone(c) ==
    /\ cycles[c].pc = "groups"
    /\ \A i \in 1..Len(cycles[c].groupGamesSets) : cycles[c].groupGamesSets[i].settled
    /\ \E cached \in {ReadKey(localStore, ROLIMONS_CACHE_KEY, CACHE_MAX_AGE_MS)} :
         LET hit == CachedPlayersByPlace(cached)
         IN  cycles' = [cycles EXCEPT
                        ![c].pc = "rolimons",
                        ![c].allGames = CollectGames(cycles[c].userGames,
                                                     Flat(cycles[c].groupGamesSets)),
                        ![c].settled = hit,
                        ![c].rolimonsFrom = IF hit THEN "cache" ELSE "none",
                        ![c].rolimonsRequested = ~hit,
                        ![c].rolimonsPlayersByPlace =
                            IF hit THEN ToNumberMap(PlayersByPlaceIn(cached)) ELSE <<>>]
    /\ UNCHANGED <<loaded, localStore, storageDenied, storageFull, dateNow, dom, finished, started>>
    /\ UNCHANGED nonRefreshVars

\* The secondary provider answers: the per-place object is built, stored
\* under its key and turned into the map (an error on the way leaves the safe
\* wrapper's empty map).
RolimonsArrives(c) ==
    /\ cycles[c].pc = "rolimons"
    /\ ~cycles[c].settled
    /\ \E payload \in RolimonsPayloads :
         /\ LET setItemRaises  == storageFull
                playersByPlace == <<"entries", PlayersByPlaceInto(<<>>, GamesOf(payload))>>
                thrown         == WriteSnapshotThrows(setItemRaises)
            IN  /\ localStore' = WriteSnapshot(localStore, ROLIMONS_CACHE_KEY,
                                               Obj(Num(dateNow), RolimonsBlob(playersByPlace)),
                                               setItemRaises)
                /\ cycles' = [cycles EXCEPT
                                ![c].settled = TRUE,
                                ![c].rolimonsFrom = IF thrown THEN "failed" ELSE "fetch",
                                ![c].rolimonsPlayersByPlace =
                                    IF thrown THEN <<>> ELSE ToNumberMap(playersByPlace),
                                ![c].setItemRaised = cycles[c].setItemRaised \/ setItemRaises]
    /\ UNCHANGED <<loaded, storageDenied, storageFull, dateNow, dom, finished, started>>
    /\ UNCHANGED nonRefreshVars

\* Mutant of GetRolimonsPlayersByPlaceSafeRejects: the error is let out.
GetRolimonsPlayersByPlaceSafeRethrows(failed) == failed

\* getRolimonsPlayersByPlaceSafe catches the error of
\* getRolimonsPlayersByPlace: it never rejects.
GetRolimonsPlayersByPlaceSafeRejects(failed) == FALSE

\* The secondary provider's request fails for good: the safe wrapper gives an
\* empty map.
RolimonsFails(c) ==
    /\ cycles[c].pc = "rolimons"
    /\ ~cycles[c].settled
    /\ IF GetRolimonsPlayersByPlaceSafeRejects(TRUE)
       THEN CatchAndFinally(c, "rolimons")
       ELSE /\ cycles' = [cycles EXCEPT ![c].settled = TRUE, ![c].rolimonsFrom = "failed",
                                        ![c].rolimonsPlayersByPlace = <<>>]
            /\ UNCHANGED <<loaded, localStore, storageDenied, storageFull, dateNow, dom,
                           finished, started>>
    /\ UNCHANGED nonRefreshVars

\* The call resumes with the per-place map: when it is empty
\* getUniversePlayingById is called (which returns at once for no id, and
\* else issues its request); when it is not, the call runs to its end.
RolimonsDone(c) ==
    /\ cycles[c].pc = "rolimons"
    /\ cycles[c].settled
    /\ IF Len(cycles[c].rolimonsPlayersByPlace) = 0
       THEN /\ cycles' = [cycles EXCEPT ![c].pc = "batch",
                                        ![c].settled = (Len(cycles[c].allGames) = 0),
                                        ![c].batchRequested = (Len(cycles[c].allGames) # 0)]
            /\ UNCHANGED <<loaded, localStore, storageDenied, storageFull, dateNow, dom,
                           finished, started>>
       ELSE Finish(c, <<>>)
    /\ UNCHANGED nonRefreshVars

\* The batch endpoint answers.
BatchArrives(c) ==
    /\ cycles[c].pc = "batch"
    /\ ~cycles[c].settled
    /\ \E answer \in UniversePlayingMaps :
         cycles' = [cycles EXCEPT ![c].settled = TRUE, ![c].universePlayingById = answer]
    /\ UNCHANGED <<loaded, localStore, storageDenied, storageFull, dateNow, dom, finished, started>>
    /\ UNCHANGED nonRefreshVars

\* The batch request fails for good: getUniversePlayingById rejects.
BatchRejects(c) ==
    /\ cycles[c].pc = "batch"
    /\ ~cycles[c].settled
    /\ CatchAndFinally(c, "batch")
    /\ UNCHANGED nonRefreshVars

\* The call resumes with the per-universe map and runs to its end.
BatchDone(c) ==
    /\ cycles[c].pc = "batch"
    /\ cycles[c].settled
    /\ Finish(c, cycles[c].universePlayingById)
    /\ UNCHANGED nonRefreshVars

RefreshInit ==
    /\ loaded = FALSE
    /\ localStore = [k \in StorageKeys |-> Missing]
    /\ storageDenied = FALSE
    /\ storageFull = FALSE
    /\ dateNow = LoadMs
    /\ dom = InitialDom
    /\ cycles = <<>>
    /\ finished = NoCycle
    /\ started = 0

----------------------------------------------------------------------------

Init ==
    /\ MapInit /\ FetchInit /\ PageInit /\ CacheInit
    /\ GroupsInit /\ CollectInit /\ CycleInit /\ BatchInit
    /\ JsonInit /\ RefreshInit

NextMap ==
    \/ MapCall
    \/ HandlerSettle
    \/ WorkerResume
    \/ MapReturn

SpecMap == Init /\ [][NextMap]_vars

NextFetch ==
    \/ FetchCall
    \/ FetchResponds
    \/ FetchNetworkError
    \/ ReadBody
    \/ TimerFires
    \/ BackoffEnds

SpecFetch == Init /\ [][NextFetch]_vars

NextPage ==
    \/ PagedCall
    \/ PageResponds
    \/ PageFails

SpecPage == Init /\ [][NextPage]_vars

NextCache ==
    \/ StorageFound
    \/ ClockAdvances
    \/ WriteSnapshotCall
    \/ ReadSnapshotCall

SpecCache == Init /\ [][NextCache]_vars

NextGroups ==
    \/ OwnedGroupsCall
    \/ RolesArrive
    \/ RolesFail

SpecGroups == Init /\ [][NextGroups]_vars

NextCollect == CollectGamesCall

SpecCollect == Init /\ [][NextCollect]_vars

NextTotals ==
    \/ CycleListsArrive
    \/ GroupGamesSettle
    \/ TotalsBuilt

SpecTotals == Init /\ [][NextTotals]_vars

NextBatch ==
    \/ BatchCall
    \/ BatchResponds
    \/ BatchFails

SpecBatch == Init /\ [][NextBatch]_vars

NextJson ==
    \/ FetchJsonCall
    \/ HostRequestOk
    \/ HostRequestFails
    \/ HostBackoffEnds

SpecJson == Init /\ [][NextJson]_vars

NextRefresh ==
    \/ PageLoads
    \/ RefreshClick
    \/ \E c \in 1..Len(cycles) : ListsArrive(c)
    \/ \E c \in 1..Len(cycles) : ListsFail(c)
    \/ \E c \in 1..Len(cycles) : GroupSettles(c)
    \/ \E c \in 1..Len(cycles) : GroupsDone(c)
    \/ \E c \in 1..Len(cycles) : RolimonsArrives(c)
    \/ \E c \in 1..Len(cycles) : RolimonsFails(c)
    \/ \E c \in 1..Len(cycles) : RolimonsDone(c)
    \/ \E c \in 1..Len(cycles) : BatchArrives(c)
    \/ \E c \in 1..Len(cycles) : BatchRejects(c)
    \/ \E c \in 1..Len(cycles) : BatchDone(c)

SpecRefresh == Init /\ [][NextRefresh]_vars

\* A step of a call in flight: a request of the call settles, or the call
\* resumes after the promise it awaits.
CycleStep ==
    \E c \in 1..Len(cycles) :
        \/ ListsArrive(c) \/ ListsFail(c)
        \/ GroupSettles(c) \/ GroupsDone(c)
        \/ RolimonsArrives(c) \/ RolimonsFails(c) \/ RolimonsDone(c)
        \/ BatchArrives(c) \/ BatchRejects(c) \/ BatchDone(c)

\* Every request settles in the end and the event loop runs every
\* continuation that is ready: while calls are in flight, steps of them keep
\* being taken.  Nothing makes the user click.
SpecRefreshFair ==
    SpecRefresh /\ ([]<>(cycles = <<>>) \/ []<><<CycleStep>>_vars)

----------------------------------------------------------------------------
(* C1: at no time are more than `concurrency` handler invocations started  *)
(* and not yet settled, for every item list, every limit >= 1 and every    *)
(* interleaving of completions.                                            *)
C1_AtMostLimitPending ==
    mapState # "idle" => Cardinality(PendingCalls) <= concurrency

\* The limit is reached again after a completion: more items than workers,
\* some invocation already settled, and `concurrency` invocations in flight.
C1_Witness ==
    /\ mapState = "running"
    /\ Len(items) > concurrency
    /\ Cardinality(PendingCalls) = concurrency
    /\ concurrency >= 2
    /\ \E k \in 1..Len(calls) : calls[k].state = "fulfilled"

(* C2: when every handler invocation succeeds, the returned array has the  *)
(* length of the input and position i holds handler(items[i]), whatever    *)
(* the completion order.                                                   *)
C2_ResultsInInputOrder ==
    /\ mapState = "resolved" =>
         /\ Len(mapReturned) = Len(items)
         /\ \A i \in 1..Len(items) : mapReturned[i] = HandlerResult(items[i], i - 1)
    /\ (/\ mapState = "running"
        /\ Len(calls) = Len(items)
        /\ \A k \in 1..Len(calls) : calls[k].state = "fulfilled"
        /\ \A w \in 1..Len(workers) : workers[w].pc = "returned")
       => \A i \in 1..Len(items) : results[i] = HandlerResult(items[i], i - 1)

\* Resolved after the invocations completed out of input order: a later
\* item's handler settled while an earlier one was still pending.
C2_Witness ==
    /\ mapState = "resolved"
    /\ Len(items) >= 3
    /\ concurrency >= 2
    /\ items[1] # items[2]
    /\ \E p, q \in 1..Len(settleOrder) : p < q /\ settleOrder[p] > settleOrder[q]

FailedOutcomes == {"http", "network", "abort", "syntax"}

(* C10: fetchAbsoluteJson issues at most 3 requests for one URL; it returns *)
(* the parsed body of the first attempt that succeeds and issues no further *)
(* attempt; a non-2xx response, a network error and a timeout abort are     *)
(* failed attempts; once all 3 have failed it raises the error of the last  *)
(* attempt.                                                                 *)
C10_AtMostThreeAttempts ==
    /\ Len(attemptLog) <= 3
    /\ \A k \in 1..Len(attemptLog) - 1 : attemptLog[k].outcome \in FailedOutcomes
    /\ fetchPc = "returned" =>
         /\ attemptLog[Len(attemptLog)].outcome = "ok"
         /\ fetchResult.kind = "value"
         /\ fetchResult.body = attemptLog[Len(attemptLog)].body
    /\ fetchPc = "threw" =>
         /\ Len(attemptLog) = 3
         /\ attemptLog[3].outcome \in FailedOutcomes
         /\ fetchResult.kind = "error"
         /\ fetchResult.error = attemptLog[3].error
    /\ (fetchPc \in {"fetching", "reading"}) => attemptLog[Len(attemptLog)].outcome = "pending"
    /\ (fetchPc = "backoff") => attemptLog[Len(attemptLog)].outcome \in FailedOutcomes

\* All three attempts failed, each in a different way, and the error thrown
\* is the third one.
C10_Witness ==
    /\ fetchPc = "threw"
    /\ attemptLog[1].outcome = "http"
    /\ attemptLog[2].outcome = "abort"
    /\ attemptLog[3].outcome = "network"

RECURSIVE ConcatPages(_)
ConcatPages(log) ==
    IF log = <<>> THEN <<>>
    ELSE ConcatPages(SubSeq(log, 1, Len(log) - 1))
         \o (IF log[Len(log)].data = NotArray THEN <<>> ELSE log[Len(log)].data.elems)

(* C3: getPagedGames requests the first page without a cursor, then each   *)
(* further page with exactly the nextPageCursor of the previous response   *)
(* and only after that response arrived; at the first response without a   *)
(* cursor it stops and returns the items of all pages in page order.       *)
C3_FollowsCursor ==
    /\ pagePc # "idle" =>
         /\ requestLog[1].cursorParam = Undef
         /\ Len(responseLog) <= Len(requestLog)
         /\ Len(requestLog) <= Len(responseLog) + 1
    /\ \A k \in 2..Len(requestLog) :
         /\ requestLog[k].cursorParam # Undef
         /\ responseLog[k - 1].nextPageCursor \in CursorTokens
         /\ DecodeURIComponent(requestLog[k].cursorParam[2])
              = responseLog[k - 1].nextPageCursor[2]
    /\ \A k \in 1..Len(responseLog) :
         responseLog[k].nextPageCursor \in NoCursor
           => /\ k = Len(responseLog)
              /\ pagePc = "returned"
              /\ Len(requestLog) = k
    /\ pagePc = "returned" =>
         /\ responseLog[Len(responseLog)].nextPageCursor \in NoCursor
         /\ pageReturned = ConcatPages(responseLog)
    /\ pagePc = "awaiting" => Len(requestLog) = Len(responseLog) + 1

\* Three pages were collected, the second cursor being one that needs
\* escaping, and the result holds items of more than one page.
C3_Witness ==
    /\ pagePc = "returned"
    /\ Len(responseLog) = 3
    /\ responseLog[1].nextPageCursor = Chars(<<"%", "3", "D">>)
    /\ responseLog[2].nextPageCursor = Chars(<<"b", "=">>)
    /\ responseLog[1].data = Arr(<<"g1">>)
    /\ responseLog[2].data = NotArray
    /\ responseLog[3].data = Arr(<<"g2", "g1">>)
    /\ pageReturned = <<"g1", "g2", "g1">>

\* The stored entry is the JSON text of an object.
IsJsonObject(raw) == raw[1] = "json" /\ raw[2][1] = "object"

\* The timestamp the stored object carries, read as a number.
StoredUpdatedAtMs(raw) == ToNumber(Coalesce(ParseValue(raw[2][2].updatedAtMs), Num(0)))

\* The entry a read has to reject: unreadable or missing, not a JSON object,
\* without a positive updatedAtMs, or older than the ceiling.
MustReject(r) ==
    \/ r.raised
    \/ r.raw = Missing
    \/ ~IsJsonObject(r.raw)
    \/ ~JsGt(StoredUpdatedAtMs(r.raw), Num(0))
    \/ r.at - StoredUpdatedAtMs(r.raw)[2] > r.maxAgeMs

(* C4: readSnapshot returns null whenever the stored entry is missing, is  *)
(* not parseable as a JSON object, has no positive updatedAtMs or is older *)
(* than maxAge, and returns the stored object in every other case.         *)
C4_NullIffInvalid ==
    lastRead # NoRead =>
        IF MustReject(lastRead) THEN lastRead.result = Null
        ELSE lastRead.result = JsonParse(lastRead.raw)

(* C5 as stated: a writeSnapshot followed immediately by a readSnapshot of *)
(* the same key within the age ceiling returns the written value.          *)
C5_ReadAfterWrite ==
    (/\ lastRead.afterWrite
     /\ lastRead.at - lastRead.write.at <= lastRead.maxAgeMs)
    => lastRead.result = lastRead.write.data

(* C5 as amended: the read returns the written value when, besides, the    *)
(* storage accepted the write and served the read (neither setItem nor     *)
(* getItem raised) and the written value has no NaN field, which JSON does *)
(* not keep.                                                               *)
C5_ReadAfterStoredWrite ==
    (/\ lastRead.afterWrite
     /\ lastRead.at - lastRead.write.at <= lastRead.maxAgeMs
     /\ ~lastRead.write.raised
     /\ ~lastRead.raised
     /\ lastRead.write.data[2].payload # NaN)
    => lastRead.result = lastRead.write.data

\* A snapshot written over an entry found in storage is read back at the
\* very end of the short ceiling.
C5_Witness ==
    /\ lastRead.afterWrite
    /\ ~lastRead.write.raised
    /\ ~lastRead.raised
    /\ lastRead.key = CACHE_KEY
    /\ lastRead.maxAgeMs = CACHE_MAX_AGE_MS
    /\ lastRead.write.at = StartMs
    /\ lastRead.at = StartMs + CACHE_MAX_AGE_MS
    /\ lastRead.result = lastRead.write.data
    /\ lastRead.result # Null

\* C4 without the entries whose updatedAtMs does not read as a number.
C4_ExceptNaNTimestamp ==
    (lastRead # NoRead /\ (IsJsonObject(lastRead.raw) => StoredUpdatedAtMs(lastRead.raw) # NaN))
    => C4_NullIffInvalid

\* The positions of the role entries whose rank is a number >= 255, and among
\* them the last one for each group id.
OwnedPositions(roles) ==
    {k \in 1..Len(roles) : roles[k].rank[1] = "num" /\ roles[k].rank[2] >= 255}

LastOwnedPositions(roles) ==
    {k \in OwnedPositions(roles) :
        \A j \in OwnedPositions(roles) :
            j > k => ToNumber(roles[j].group.id) # ToNumber(roles[k].group.id)}

SeqToSet(seq) == {seq[i] : i \in 1..Len(seq)}

(* C6: getOwnedGroups returns exactly the groups of the role entries whose *)
(* rank is a number >= 255, one record per group id, the last-seen record  *)
(* of an id being the one kept.                                            *)
C6_OwnedDeduped ==
    groupsPc = "returned" =>
        LET roles == RolesOf(rolesData)
        IN  /\ SeqToSet(groupsReturned)
                 = {OwnedRecord(roles[k]) : k \in LastOwnedPositions(roles)}
            /\ Len(groupsReturned) = Cardinality(LastOwnedPositions(roles))
            /\ \A i, j \in 1..Len(groupsReturned) :
                 groupsReturned[i].id = groupsReturned[j].id => i = j

\* Three entries: an owned group, a group whose rank is the string "255", and
\* the first group again with another member count; the later record is kept.
C6_Witness ==
    /\ groupsPc = "returned"
    /\ rolesData.isArray
    /\ Len(rolesData.elems) = 3
    /\ rolesData.elems[1] = [rank |-> Num(255), group |-> [id |-> Num(1), name |-> "A", memberCount |-> Num(500)]]
    /\ rolesData.elems[2].rank = Str("255")
    /\ rolesData.elems[2].group.id = Num(2)
    /\ rolesData.elems[3] = [rank |-> Num(255), group |-> [id |-> Str("1"), name |-> "A$", memberCount |-> Undef]]
    /\ groupsReturned = <<[id |-> Num(1), name |-> "A$", memberCount |-> Num(0)]>>

\* The positions of the input games that carry a positive universe id, and
\* among them the last one for each id.
PositiveIdPositions(gameList) ==
    {k \in 1..Len(gameList) : JsGt(ToNumber(Coalesce(gameList[k].id, Num(0))), Num(0))}

LastPositivePositions(gameList) ==
    {k \in PositiveIdPositions(gameList) :
        \A j \in PositiveIdPositions(gameList) :
            j > k => ToNumber(gameList[j].id) # ToNumber(gameList[k].id)}

(* C7: collectGames returns exactly one record per distinct positive       *)
(* universe id of the account's games followed by the communities' games,  *)
(* and for an id that occurs more than once the record seen last is kept.  *)
C7_OnePerPositiveId ==
    collectArgs.called =>
        LET all == collectArgs.userGames \o collectArgs.groupGames
        IN  /\ SeqToSet(collected) = {GameRecord(all[k]) : k \in LastPositivePositions(all)}
            /\ Len(collected) = Cardinality(LastPositivePositions(all))

\* C7 on the inputs whose ids all read as numbers.
C7_ExceptNaNId ==
    (collectArgs.called
     /\ \A k \in 1..Len(collectArgs.userGames \o collectArgs.groupGames) :
          ToNumber(Coalesce((collectArgs.userGames \o collectArgs.groupGames)[k].id, Num(0))) # NaN)
    => C7_OnePerPositiveId

\* The example of the specification: ids 1, 2, 2, 3 from two sources give three
\* records, the later record of id 2 being the one kept.
C7_Example ==
    /\ collectArgs.called
    /\ Len(collectArgs.userGames) = 2
    /\ Len(collectArgs.groupGames) = 2
    /\ collectArgs.userGames[1].id = Num(1)
    /\ collectArgs.userGames[2] = [id |-> Num(2), rootPlaceId |-> Num(12), placeVisits |-> Num(20)]
    /\ collectArgs.groupGames[1] = [id |-> Num(2), rootPlaceId |-> Undef, placeVisits |-> Num(30)]
    /\ collectArgs.groupGames[2].id = Num(3)
    /\ Len(collected) = 3
    /\ collected[2] = [universeId |-> Num(2), rootPlaceId |-> Num(0), placeVisits |-> Num(30)]

RECURSIVE SumOver(_, _)
SumOver(S, f) ==
    IF S = {} THEN 0
    ELSE LET x == CHOOSE y \in S : TRUE IN f[x] + SumOver(S \ {x}, f)

\* The member count the roles payload gives the entry at position k.
MemberCountAt(roles) ==
    [k \in 1..Len(roles) |-> ToNumber(Coalesce(roles[k].group.memberCount, Num(0)))[2]]

(* C8: the groupMembers total of a cycle is the sum of memberCount over    *)
(* the deduplicated owned communities (500 and 1500 give 2000), whether or *)
(* not a community's content listing failed.                               *)
C8_GroupMembersTotal ==
    cyclePc = "done" =>
        LET roles == RolesOf(cycleRoles)
        IN  totals.groupMembers = Num(SumOver(LastOwnedPositions(roles), MemberCountAt(roles)))

\* Two owned communities with 500 and 1500 members, the listing of one of
\* them failed, and the total is 2000.
C8_Witness ==
    /\ cyclePc = "done"
    /\ Len(ownedGroups) = 2
    /\ {ownedGroups[1].memberCount, ownedGroups[2].memberCount} = {Num(500), Num(1500)}
    /\ \E i \in 1..2 : groupGamesSets[i].failed
    /\ \E i \in 1..2 : ~groupGamesSets[i].failed
    /\ totals.groupMembers = Num(2000)

\* How often an id occurs in the chunks requested.
Occurrences(id) ==
    Cardinality(UNION {{<<r, i>> : i \in {j \in 1..Len(batchRequests[r]) : batchRequests[r][j] = id}} :
                          r \in 1..Len(batchRequests)})

EveryIdInOneChunk == \A k \in 1..Len(universeIds) : Occurrences(universeIds[k]) = 1

(* C9 as stated: a batch request for 45 universe ids is split into exactly *)
(* 2 chunks (2 requests), every universe id in exactly one chunk.          *)
C9_FortyFiveInTwoChunks ==
    (batchPc = "returned" /\ Len(universeIds) = 45) =>
        /\ Len(batchRequests) = 2
        /\ EveryIdInOneChunk

(* C9 as amended: 45 universe ids are sent as exactly 1 chunk by           *)
(* getUniversePlayingById (chunks of 100) and as exactly 2 chunks by the   *)
(* earlier getUniverseStats (chunks of 30); n ids take the least number of *)
(* chunks of that size, and every id is in exactly one chunk.              *)
C9_ChunksBySize ==
    batchPc = "returned" =>
        /\ EveryIdInOneChunk
        /\ \A r \in 1..Len(batchRequests) :
             Len(batchRequests[r]) >= 1 /\ Len(batchRequests[r]) <= ChunkSizeOf(batchFn)
        /\ Len(batchRequests) * ChunkSizeOf(batchFn) >= Len(universeIds)
        /\ Len(universeIds) > 0 =>
             (Len(batchRequests) - 1) * ChunkSizeOf(batchFn) < Len(universeIds)
        /\ Len(universeIds) = 45 =>
             Len(batchRequests) = IF batchFn = "getUniversePlayingById" THEN 1 ELSE 2

\* getUniversePlayingById returned for 45 ids after a single request that
\* carried all of them.
C9_Witness ==
    /\ batchPc = "returned"
    /\ batchFn = "getUniversePlayingById"
    /\ Len(universeIds) = 45
    /\ Len(batchRequests) = 1
    /\ Len(batchRequests[1]) = 45
    /\ Len(batchResponses) = 1
    /\ Len(batchResult) \in {0, 45}


\* The request the k-th position of the log must hold when hosts are tried in
\* list order with MAX_ATTEMPTS attempts each.
ExpectedRequest(k) ==
    [url     |-> UrlOf(API_HOSTS[jsonService][((k - 1) \div MAX_ATTEMPTS) + 1], jsonPath),
     attempt |-> ((k - 1) % MAX_ATTEMPTS) + 1]

(* C11: fetchJson tries the mirror hosts of a service in list order, goes  *)
(* to the next host only when the current one has used up its attempts,    *)
(* returns the first successful result without contacting a later host,    *)
(* throws the last host's error when every host failed, and for an unknown *)
(* service throws without issuing a request.                               *)
C11_HostsInOrder ==
    /\ jsonService \notin DOMAIN API_HOSTS => jsonRequests = <<>>
    /\ (jsonPc # "idle" /\ jsonService \notin DOMAIN API_HOSTS) =>
           jsonPc = "threw" /\ jsonResult.kind = "error"
    /\ \A k \in 1..Len(jsonRequests) :
         /\ jsonRequests[k].url = ExpectedRequest(k).url
         /\ jsonRequests[k].attempt = ExpectedRequest(k).attempt
         /\ k < Len(jsonRequests) => jsonRequests[k].outcome \in HostErrorKinds
    /\ jsonPc = "returned" =>
         /\ jsonRequests[Len(jsonRequests)].outcome = "ok"
         /\ jsonResult.kind = "value"
    /\ (jsonPc = "threw" /\ jsonService \in DOMAIN API_HOSTS) =>
         LET hosts == API_HOSTS[jsonService]
             last  == jsonRequests[Len(jsonRequests)]
         IN  /\ Len(jsonRequests) = MAX_ATTEMPTS * Len(hosts)
             /\ last.outcome \in HostErrorKinds
             /\ jsonResult.kind = "error"
             /\ jsonResult.error = HostError(last.outcome, UrlOf(hosts[Len(hosts)], jsonPath),
                                             MAX_ATTEMPTS)

\* Every attempt for both hosts failed, with different kinds of error for the
\* first and the second host, and the second host's error was thrown.
C11_Witness ==
    /\ jsonPc = "threw"
    /\ jsonService = "games"
    /\ Len(jsonRequests) = 6
    /\ jsonRequests[3].outcome = "http"
    /\ jsonRequests[6].outcome = "network"
    /\ jsonResult.error.kind = "network"
    /\ jsonResult.error.url[1] = "https://games.roblox.com"


\* The wait C20 states for the n-th failed attempt, from the retry-after
\* header of the failed response (Undef when the attempt got no response).
PositiveSeconds == [h \in {Str("2"), Str("5")} |-> IF h = Str("2") THEN 2 ELSE 5]

StatedBackoffMs(header, n) ==
    IF header \in DOMAIN PositiveSeconds THEN PositiveSeconds[header] * 1000
    ELSE 300 * n * n

(* C20: after the n-th failed attempt (n = 1, 2, 3) fetchAbsoluteJson      *)
(* waits the retry-after value of the failed response, seconds times 1000, *)
(* when that is a positive number, and otherwise 300 * n * n ms, which     *)
(* strictly increases with n.                                              *)
C20_BackoffValues ==
    /\ Len(delays) <= 3
    /\ \A n \in 1..Len(delays) :
         /\ attemptLog[n].outcome \in FailedOutcomes
         /\ delays[n] = StatedBackoffMs(attemptLog[n].header, n)
    /\ \A n1, n2 \in 1..Len(delays) :
         (/\ n1 < n2
          /\ attemptLog[n1].header \notin DOMAIN PositiveSeconds
          /\ attemptLog[n2].header \notin DOMAIN PositiveSeconds) => delays[n1] < delays[n2]

\* Three failures: a response without retry-after, one with retry-after 2,
\* and a network error; the waits were 300, 2000 and 2700 ms.
C20_Witness ==
    /\ fetchPc = "threw"
    /\ attemptLog[1].outcome = "http" /\ attemptLog[1].header = Null
    /\ attemptLog[2].outcome = "http" /\ attemptLog[2].header = Str("2")
    /\ attemptLog[3].outcome = "network"
    /\ delays = <<300, 2000, 2700>>


HasKey(entries, key) == \E i \in 1..Len(entries) : entries[i].key = key

ValueAt(entries, key) == (CHOOSE e \in SeqToSet(entries) : e.key = key).value[2]

\* What C19 states the k-th merged item adds to the playing total.
StatedPlaying ==
    [k \in 1..Len(allGames) |->
        LET game == allGames[k]
        IN  IF game.rootPlaceId[2] > 0 /\ HasKey(rolimonsPlayersByPlace, game.rootPlaceId)
            THEN ValueAt(rolimonsPlayersByPlace, game.rootPlaceId)
            ELSE IF HasKey(universePlayingById, game.universeId)
                 THEN ValueAt(universePlayingById, game.universeId)
                 ELSE 0]

(* C19: the playing total of a cycle is the sum over the deduplicated      *)
(* content items of the secondary provider's count for the item's root     *)
(* place when that id is positive and in the per-place map, and otherwise  *)
(* of the primary provider's count for the item's universe id, 0 when that *)
(* is absent too.                                                          *)
C19_PlayingTotal ==
    cyclePc = "done" =>
        /\ \A i, j \in 1..Len(allGames) :
             allGames[i].universeId = allGames[j].universeId => i = j
        /\ totals.playing = Num(SumOver(1..Len(allGames), StatedPlaying))

\* Three merged items: one with no root place, one whose place the per-place
\* map knows (7 playing) and one whose place it does not know; the total is 7.
C19_Witness ==
    /\ cyclePc = "done"
    /\ Len(allGames) = 3
    /\ Len(rolimonsPlayersByPlace) > 0
    /\ \E k \in 1..3 : allGames[k].rootPlaceId = Num(0)
    /\ \E k \in 1..3 : allGames[k].rootPlaceId = Num(12)
    /\ \E k \in 1..3 : allGames[k].rootPlaceId = Num(13)
    /\ totals.playing = Num(7)


----------------------------------------------------------------------------
(* Claims about the refresh cycles                                         *)

\* No call of loadPortfolioStats is in flight: the document and the storage
\* are as the call that ended last left them.
Quiescent == loaded /\ cycles = <<>>

\* Both listings of the call answered.
ListsSucceeded(cyc) ==
    /\ cyc.pc # "none"
    /\ cyc.raised \notin {"render", "userGames", "ownedGroups"}

\* The listings of the communities of cyc from the i-th on that answered, in
\* order.
RECURSIVE AnsweredGroupGames(_, _)
AnsweredGroupGames(cyc, i) ==
    IF i > Len(cyc.ownedGroups) THEN <<>>
    ELSE (IF cyc.groupGamesSets[i].failed THEN <<>>
          ELSE CycleGroupGames(cyc.ownedGroups[i].id))
         \o AnsweredGroupGames(cyc, i + 1)

\* The call ended on the success path: its snapshot is stored (when storage
\* takes writes) and the document shows it as live.
SuccessPath(cyc) ==
    /\ cyc.pc = "done"
    /\ ~storageFull => localStore[CACHE_KEY] = JsonStringify(cyc.snapshot)
    /\ dom.status \in {StatusLive(Len(cyc.allGames)), StatusLiveFallback(Len(cyc.allGames))}
    /\ dom.updatedAt = <<"date", cyc.snapshot[2].updatedAtMs, FALSE>>
    /\ dom.stats[TOTAL_VISITS_ID] = TotalsOf(cyc.snapshot).visits
    /\ dom.stats[TOTAL_MEMBERS_ID] = TotalsOf(cyc.snapshot).groupMembers
    /\ dom.stats[TOTAL_PLAYING_ID] = TotalsOf(cyc.snapshot).playing
    /\ ~dom.disabled

\* The communities whose listing failed contributed no item to the call.
FailedGroupsSkipped(cyc) ==
    /\ cyc.allGames = CollectGames(cyc.userGames, AnsweredGroupGames(cyc, 1))
    /\ UniverseCountOf(cyc.snapshot) = Len(cyc.allGames)

\* C12 as stated: a call whose two listings answered ends on the success
\* path, whatever communities' listings failed, the failed ones contributing
\* no item.
C12_ListsSufficeForSuccess ==
    (Quiescent /\ ListsSucceeded(finished))
        => (SuccessPath(finished) /\ FailedGroupsSkipped(finished))

\* C12, amended: a call whose two listings answered and whose batch request,
\* when it made one, answered too ends on the success path, whatever
\* communities' listings failed, the failed ones contributing no item.
C12_GroupFailuresIsolated ==
    (Quiescent /\ ListsSucceeded(finished) /\ finished.raised # "batch")
        => (SuccessPath(finished) /\ FailedGroupsSkipped(finished))

\* A call ended on the success path after the first of its two communities'
\* listings failed and the second answered.
C12_Witness ==
    /\ Quiescent
    /\ finished.pc = "done"
    /\ Len(finished.ownedGroups) = 2
    /\ finished.groupGamesSets[1].failed
    /\ ~finished.groupGamesSets[2].failed
    /\ Len(finished.allGames) = 2


\* The calls in flight and the call that ended last.
Calls == {cycles[c] : c \in 1..Len(cycles)} \cup {finished}

\* The call has resumed after its await of getRolimonsPlayersByPlaceSafe.
PastRolimons(cyc) ==
    \/ cyc.pc = "batch"
    \/ cyc.pc \in {"done", "failed"} /\ cyc.rolimonsFrom # "none"

\* A failure of the secondary provider leaves the call with an empty
\* per-place map and never takes it to the catch block.
SecondaryFailureAbsorbed(cyc) ==
    /\ cyc.raised # "rolimons"
    /\ cyc.rolimonsFrom = "failed" => cyc.rolimonsPlayersByPlace = <<>>

\* C13 as stated: a failure of the secondary provider never fails the call
\* and gives an empty per-place map, and the batch endpoint is queried in a
\* call iff the call's per-place map is empty.
C13_BatchIffMapEmpty ==
    \A cyc \in Calls :
        /\ SecondaryFailureAbsorbed(cyc)
        /\ PastRolimons(cyc) =>
               (cyc.batchRequested <=> Len(cyc.rolimonsPlayersByPlace) = 0)

\* C13, amended: a failure of the secondary provider never fails the call
\* and gives an empty per-place map, and the batch endpoint is queried in a
\* call iff the call's per-place map is empty and the call has at least one
\* content item.
C13_BatchIffMapEmptyAndItems ==
    \A cyc \in Calls :
        /\ SecondaryFailureAbsorbed(cyc)
        /\ PastRolimons(cyc) =>
               (cyc.batchRequested <=>
                    (Len(cyc.rolimonsPlayersByPlace) = 0 /\ Len(cyc.allGames) > 0))

\* A call whose secondary-provider request failed queried the batch endpoint
\* and ended on the success path, in fallback mode.
C13_Witness ==
    /\ Quiescent
    /\ finished.pc = "done"
    /\ finished.rolimonsFrom = "failed"
    /\ finished.batchRequested
    /\ dom.status = StatusLiveFallback(Len(finished.allGames))


\* Storage holds under CACHE_KEY a snapshot whose age is at most 24 hours.
StoredWithinFailoverAge ==
    /\ ~storageDenied
    /\ localStore[CACHE_KEY] # Missing
    /\ IsJsonObject(localStore[CACHE_KEY])
    /\ StoredUpdatedAtMs(localStore[CACHE_KEY])[1] = "num"
    /\ StoredUpdatedAtMs(localStore[CACHE_KEY])[2] > 0
    /\ dateNow - StoredUpdatedAtMs(localStore[CACHE_KEY])[2] <= CACHE_FAILOVER_MAX_AGE_MS

\* The call ended after a fetch of it raised: it reached the catch block.
ReachedCatch(cyc) ==
    /\ cyc.pc \in {"failed", "rejected"}
    /\ cyc.raised \in {"userGames", "ownedGroups", "batch"}

\* The document shows the snapshot stored under CACHE_KEY, marked as cached.
ShowsStoredAsCached ==
    LET stored == JsonParse(localStore[CACHE_KEY])
    IN  /\ ~RenderSnapshotThrows(stored)
        /\ dom.updatedAt = <<"date", StoredUpdatedAtMs(localStore[CACHE_KEY]), TRUE>>
        /\ dom.status = STATUS_FAILOVER
        /\ dom.stats[TOTAL_VISITS_ID] = ToNumber(Coalesce(TotalsOf(stored).visits, Num(0)))
        /\ dom.stats[TOTAL_MEMBERS_ID] = ToNumber(Coalesce(TotalsOf(stored).groupMembers, Num(0)))
        /\ dom.stats[TOTAL_PLAYING_ID] = ToNumber(Coalesce(TotalsOf(stored).playing, Num(0)))
        /\ dom.grid = RenderOwnedGroups(OwnedGroupsIn(stored))

\* The document shows the error state.
ShowsErrorState ==
    /\ \A id \in StatIds : dom.stats[id] = Str("-")
    /\ dom.updatedAt = Str("-")
    /\ dom.grid = <<"message", "Owned groups could not be loaded right now.">>

\* C14: a call that failed leaves the document showing the stored snapshot
\* as cached when storage holds one of age at most 24 hours, and the error
\* state otherwise.
C14_FailoverOrErrorState ==
    (Quiescent /\ ReachedCatch(finished))
        => IF StoredWithinFailoverAge THEN ShowsStoredAsCached ELSE ShowsErrorState

\* C14 when the stored timestamp reads as a number and the stored object
\* has its totals.
C14_ExceptNaNTimestamp ==
    (/\ Quiescent
     /\ ReachedCatch(finished)
     /\ (~storageDenied /\ localStore[CACHE_KEY] # Missing /\ IsJsonObject(localStore[CACHE_KEY]))
            => /\ StoredUpdatedAtMs(localStore[CACHE_KEY]) # NaN
               /\ ~RenderSnapshotThrows(JsonParse(localStore[CACHE_KEY])))
        => IF StoredWithinFailoverAge THEN ShowsStoredAsCached ELSE ShowsErrorState

\* A call has failed with a snapshot older than ten minutes in storage, and
\* another with none.
C14_Example ==
    /\ Quiescent
    /\ finished.pc = "failed"
    /\ StoredWithinFailoverAge
    /\ dateNow - StoredUpdatedAtMs(localStore[CACHE_KEY])[2] > CACHE_MAX_AGE_MS


\* C15: a failing storage never fails a call.  No call reaches the catch
\* block with an error of storage; while every access raises, nothing is
\* shown as cached (readSnapshot gives null); and a call whose fetches all
\* succeeded while setItem raised ended on the success path with the live
\* totals shown.
C15_StorageFailureNeverFails ==
    /\ \A cyc \in Calls : cyc.raised # "storage"
    /\ storageDenied => dom.status \notin {STATUS_CACHED, STATUS_FAILOVER}
    /\ (/\ Quiescent
        /\ storageFull
        /\ finished.pc # "none"
        /\ finished.raised \notin {"render", "userGames", "ownedGroups", "batch"})
           => SuccessPath(finished)

\* A call has ended on the success path although every access to storage
\* raised, its setItem included.
C15_Witness ==
    /\ Quiescent
    /\ storageDenied
    /\ finished.pc = "done"
    /\ finished.setItemRaised
    /\ Len(finished.allGames) > 0
    /\ localStore[CACHE_KEY] = Missing


C17_EndedCallReenables == Quiescent => ~dom.disabled

\* The part of C17 that holds: every call that got to its first await leads
\* to a state where no call is in flight and the button is enabled.
C17_AwaitingCallFinishes == (cycles # <<>>) ~> (cycles = <<>> /\ ~dom.disabled)

\* C17 for the calls that ended in the finally block.
C17_ExceptThrowBeforeTry ==
    (Quiescent /\ finished.raised # "render") => ~dom.disabled

\* A call has failed, another has succeeded after it, and the button is
\* enabled again.
C17_Example ==
    /\ started = 2
    /\ Quiescent
    /\ finished.pc = "done"
    /\ ~dom.disabled
    /\ dateNow > LoadMs

CallEnds == Len(cycles') < Len(cycles)

\* No fetch of the call failed: no listing, no community's listing, not the
\* secondary provider's request, not the batch request.
AllFetchesSucceeded(cyc) ==
    /\ cyc.raised = "none"
    /\ \A i \in 1..Len(cyc.groupGamesSets) : ~cyc.groupGamesSets[i].failed
    /\ cyc.rolimonsFrom # "failed"

\* The entry under CACHE_KEY after the step carries a positive updatedAtMs.
WrittenTimestampPositive ==
    /\ IsJsonObject(localStore'[CACHE_KEY])
    /\ StoredUpdatedAtMs(localStore'[CACHE_KEY])[1] = "num"
    /\ StoredUpdatedAtMs(localStore'[CACHE_KEY])[2] > 0

\* A step of the loaded page changes the entry under CACHE_KEY.
PortfolioKeyWritten == loaded /\ localStore'[CACHE_KEY] # localStore[CACHE_KEY]

\* A call ends in this step in the catch block.
CallFails == CallEnds /\ finished'.pc \in {"failed", "rejected"}

\* C21 as stated: the entry under CACHE_KEY changes only in a step in which a
\* call ends with every fetch of it succeeded, and then carries a positive
\* updatedAtMs; a step in which a call fails leaves the entry as it was.
C21_WrittenOnlyWhenAllFetchesSucceeded ==
    [][/\ PortfolioKeyWritten =>
            (CallEnds /\ finished'.pc = "done" /\ AllFetchesSucceeded(finished')
                /\ WrittenTimestampPositive)
       /\ CallFails => localStore'[CACHE_KEY] = localStore[CACHE_KEY]]_vars

\* C21, amended: the entry under CACHE_KEY changes only in a step in which a
\* call ends on the success path (none of its fetches reached the catch
\* block; communities' listings and the secondary provider's request may have
\* failed), it is then that call's snapshot and carries a positive
\* updatedAtMs; a step in which a call fails leaves the entry as it was.
C21_WrittenOnlyOnSuccessPath ==
    [][/\ PortfolioKeyWritten =>
            (/\ CallEnds
             /\ finished'.pc = "done"
             /\ finished'.raised = "none"
             /\ localStore'[CACHE_KEY] = JsonStringify(finished'.snapshot)
             /\ WrittenTimestampPositive)
       /\ CallFails => localStore'[CACHE_KEY] = localStore[CACHE_KEY]]_vars

\* A call whose first community's listing and whose secondary-provider
\* request failed has ended on the success path and its snapshot is stored;
\* and the entry the page found at its load was another.
C21_Witness ==
    /\ Quiescent
    /\ finished.pc = "done"
    /\ Len(finished.groupGamesSets) = 2
    /\ finished.groupGamesSets[1].failed
    /\ finished.rolimonsFrom = "failed"
    /\ localStore[CACHE_KEY] = JsonStringify(finished.snapshot)
    /\ StoredUpdatedAtMs(localStore[CACHE_KEY]) = Num(dateNow)


\* A call of loadPortfolioStats starts in this step (page load or click).
StartsCall == started' = started + 1

\* The store holds under CACHE_KEY a snapshot of age at most 10 minutes.
FreshPortfolioStored(store, denied, nowMs) ==
    /\ ~denied
    /\ store[CACHE_KEY] # Missing
    /\ IsJsonObject(store[CACHE_KEY])
    /\ StoredUpdatedAtMs(store[CACHE_KEY])[1] = "num"
    /\ StoredUpdatedAtMs(store[CACHE_KEY])[2] > 0
    /\ nowMs - StoredUpdatedAtMs(store[CACHE_KEY])[2] <= CACHE_MAX_AGE_MS

\* The document d shows the stored entry raw, marked as cached, with the
\* status of a refresh under way.
ShowsCachedWhileRefreshing(d, raw) ==
    LET stored == JsonParse(raw)
    IN  /\ ~RenderSnapshotThrows(stored)
        /\ d.updatedAt = <<"date", StoredUpdatedAtMs(raw), TRUE>>
        /\ d.status = STATUS_CACHED
        /\ d.stats[TOTAL_VISITS_ID] = ToNumber(Coalesce(TotalsOf(stored).visits, Num(0)))
        /\ d.stats[TOTAL_MEMBERS_ID] = ToNumber(Coalesce(TotalsOf(stored).groupMembers, Num(0)))
        /\ d.stats[TOTAL_PLAYING_ID] = ToNumber(Coalesce(TotalsOf(stored).playing, Num(0)))
        /\ d.grid = RenderOwnedGroups(OwnedGroupsIn(stored))

\* The document d shows the snapshot as live: its totals, its groups and its
\* time without the cached mark.
ShowsLive(d, snapshot) ==
    /\ d.updatedAt = <<"date", snapshot[2].updatedAtMs, FALSE>>
    /\ d.stats[TOTAL_VISITS_ID] = TotalsOf(snapshot).visits
    /\ d.stats[TOTAL_MEMBERS_ID] = TotalsOf(snapshot).groupMembers
    /\ d.stats[TOTAL_PLAYING_ID] = TotalsOf(snapshot).playing
    /\ d.grid = RenderOwnedGroups(OwnedGroupsIn(snapshot))

\* The call started in this step is in flight, waiting for the answers of its
\* two listings: its requests are out and no response is processed yet.
StartedCallAwaitsListings ==
    /\ Len(cycles') = Len(cycles) + 1
    /\ cycles'[Len(cycles')] = NewCycle

\* C22: a call that starts with a snapshot of age at most 10 minutes in
\* storage shows it as cached before any response is processed and still
\* goes on to its fetches; and a call that ends on the success path leaves
\* its live snapshot shown, not marked as cached.
C22_CachedFirstThenLive ==
    [][/\ (StartsCall /\ FreshPortfolioStored(localStore', storageDenied', dateNow'))
            => (/\ ShowsCachedWhileRefreshing(dom', localStore'[CACHE_KEY])
                /\ StartedCallAwaitsListings)
       /\ (CallEnds /\ finished'.pc = "done") => ShowsLive(dom', finished'.snapshot)]_vars

\* C22 when the stored object has its totals.
C22_ExceptWithoutTotals ==
    [][/\ (/\ StartsCall
           /\ FreshPortfolioStored(localStore', storageDenied', dateNow')
           /\ ~RenderSnapshotThrows(JsonParse(localStore'[CACHE_KEY])))
            => (/\ ShowsCachedWhileRefreshing(dom', localStore'[CACHE_KEY])
                /\ StartedCallAwaitsListings)
       /\ (CallEnds /\ finished'.pc = "done") => ShowsLive(dom', finished'.snapshot)]_vars

\* A call is waiting for its listings with a fresh snapshot of 70 visits in
\* storage, which the document shows as cached.
C22_Example ==
    /\ Len(cycles) = 1
    /\ cycles[1] = NewCycle
    /\ FreshPortfolioStored(localStore, storageDenied, dateNow)
    /\ ShowsCachedWhileRefreshing(dom, localStore[CACHE_KEY])
    /\ dom.stats[TOTAL_VISITS_ID] = Num(70)
    /\ dom.disabled


\* The store holds under ROLIMONS_CACHE_KEY a blob of age at most 10 minutes
\* that has a playersByPlace object.
FreshBlobStored(store, denied, nowMs) ==
    /\ ~denied
    /\ store[ROLIMONS_CACHE_KEY] # Missing
    /\ IsJsonObject(store[ROLIMONS_CACHE_KEY])
    /\ StoredUpdatedAtMs(store[ROLIMONS_CACHE_KEY])[1] = "num"
    /\ StoredUpdatedAtMs(store[ROLIMONS_CACHE_KEY])[2] > 0
    /\ nowMs - StoredUpdatedAtMs(store[ROLIMONS_CACHE_KEY])[2] <= CACHE_MAX_AGE_MS
    /\ JsonParse(store[ROLIMONS_CACHE_KEY])[2].payload[1] = "rolimons"
    /\ PlayersByPlaceIn(JsonParse(store[ROLIMONS_CACHE_KEY]))[1] = "entries"

\* The per-place map of the call is the stored one: entry by entry, the
\* place id and the count as numbers.
UsesStoredMap(cyc, raw) ==
    LET entries == PlayersByPlaceIn(JsonParse(raw))[2]
    IN  /\ cyc.rolimonsFrom = "cache"
        /\ Len(cyc.rolimonsPlayersByPlace) = Len(entries)
        /\ \A i \in 1..Len(entries) :
              /\ cyc.rolimonsPlayersByPlace[i].key = ToNumber(entries[i].key)
              /\ cyc.rolimonsPlayersByPlace[i].value = ToNumber(entries[i].value)

\* Call c gets to getRolimonsPlayersByPlaceSafe in this step.
ReachesRolimons(c) ==
    /\ Len(cycles') = Len(cycles)
    /\ cycles[c].pc = "groups"
    /\ cycles'[c].pc = "rolimons"

\* The secondary provider answers call c in this step.
RolimonsAnswers(c) ==
    /\ Len(cycles') = Len(cycles)
    /\ cycles[c].pc = "rolimons"
    /\ cycles[c].rolimonsRequested
    /\ ~cycles[c].settled
    /\ cycles'[c].rolimonsFrom = "fetch"

\* The secondary provider's request of call c fails in this step.
RolimonsRequestFails(c) ==
    /\ Len(cycles') = Len(cycles)
    /\ cycles[c].rolimonsFrom # "failed"
    /\ cycles'[c].rolimonsFrom = "failed"

\* C23: a call that finds a blob of age at most 10 minutes with a
\* playersByPlace object in storage issues no request to the secondary
\* provider and uses the stored map; the entry under ROLIMONS_CACHE_KEY
\* changes only in a step in which the secondary provider answers a call, and
\* a step in which its request fails leaves the entry as it was.
C23_SecondaryCacheUsedAndKept ==
    [][/\ \A c \in 1..Len(cycles) :
            (ReachesRolimons(c) /\ FreshBlobStored(localStore, storageDenied, dateNow))
                => (/\ ~cycles'[c].rolimonsRequested
                    /\ UsesStoredMap(cycles'[c], localStore[ROLIMONS_CACHE_KEY]))
       /\ (loaded /\ localStore'[ROLIMONS_CACHE_KEY] # localStore[ROLIMONS_CACHE_KEY])
            => \E c \in 1..Len(cycles) : RolimonsAnswers(c)
       /\ \A c \in 1..Len(cycles) :
            RolimonsRequestFails(c)
                => localStore'[ROLIMONS_CACHE_KEY] = localStore[ROLIMONS_CACHE_KEY]]_vars

\* A call has taken its per-place map (place 11, 5 players) from the fresh
\* blob in storage, without a request.
C23_Witness ==
    /\ Len(cycles) = 1
    /\ cycles[1].pc = "rolimons"
    /\ FreshBlobStored(localStore, storageDenied, dateNow)
    /\ ~cycles[1].rolimonsRequested
    /\ cycles[1].rolimonsFrom = "cache"
    /\ cycles[1].rolimonsPlayersByPlace = <<[key |-> Num(11), value |-> Num(5)]>>

====
